---- MODULE Spec2Model ----
(***************************************************************************)
(* Model of the access-point network services: the DHCP lease allocator    *)
(* (dhcpserver/dhcpserver.c), the DNS responder (dnsserver.c), the HTTP     *)
(* connection callbacks (src/http_server.c) and the response builder and    *)
(* route resolver (src/routes.c).                                           *)
(*                                                                          *)
(* 32-bit quantities are pairs <<hi, lo>> of 16-bit halves, so that the    *)
(* uint32_t arithmetic of the lease clock keeps its width.                  *)
(***************************************************************************)
EXTENDS Integers, Sequences, FiniteSets, TLC

VARIABLES
    lease,      \* dhcp_server_t.lease : slot -> [mac, expiry]
    old,        \* the lease table as it was when the last datagram arrived
    req,        \* the last datagram handed to dhcp_server_process (with the tick it read)
    reply,      \* the datagram that call passed to dhcp_socket_sendto, or NoReply
    track,      \* observer of an OFFER/REQUEST exchange (lease-stability property)
    conn,       \* one HTTP connection: its pcb, its connection_state_t, its send queue
    dns,        \* the last datagram given to dns_server_process and the reply it sent
    resp,       \* one http_response_t driven through the response-builder calls
    clk         \* wall clock behind cyw43_hal_ticks_ms and, per slot, the last ACK sent for it

dhcpVars == <<lease, old, req, reply, track>>

vars == <<lease, old, req, reply, track, conn, dns, resp, clk>>

----------------------------------------------------------------------------
(* Bounds of the model *)

\* number of lease slots (DHCPS_MAX_IP of dhcpserver.h), scaled down
DHCPS_MAX_IP == 2

\* data deliveries the transport makes on the HTTP connection
MaxDeliveries == 2
\* response-builder calls made on one Response
MaxCalls == 5

----------------------------------------------------------------------------
(* Program constants *)

DHCPS_BASE_IP == 16

DHCPDISCOVER == 1
DHCPOFFER == 2
DHCPREQUEST == 3
DHCPACK == 5
DHCPRELEASE == 7

DHCP_OPT_SUBNET_MASK == 1
DHCP_OPT_ROUTER == 3
DHCP_OPT_DNS == 6
DHCP_OPT_HOST_NAME == 12
DHCP_OPT_REQUESTED_IP == 50
DHCP_OPT_IP_LEASE_TIME == 51
DHCP_OPT_MSG_TYPE == 53
DHCP_OPT_SERVER_ID == 54
DHCP_OPT_END == 255

PORT_DHCP_CLIENT == 68
DHCP_MIN_SIZE == 243
OPT_SCAN_LIMIT == 308
\* offset of dhcp_msg_t.options plus the 4-byte magic cookie
OPT_OFFSET == 240

W16 == 65536
HALF16 == 32768

\* DEFAULT_LEASE_TIME_S * 1000 = 86,400,000 ms as a 32-bit pair
LEASE_MS_HI == 1318
LEASE_MS_LO == 23552
DEFAULT_LEASE_TIME_MS == <<LEASE_MS_HI, LEASE_MS_LO>>
\* DEFAULT_LEASE_TIME_S = 86400 as the four bytes opt_write_u32 emits
DEFAULT_LEASE_TIME_S_BYTES == <<0, 1, 81, 128>>

\* addresses network_setup hands to dhcp_server_init
ServerIp == <<192, 168, 4, 1>>
ServerNm == <<255, 255, 255, 0>>
\* the destination 0xffffffff given to dhcp_socket_sendto
BroadcastIp == <<255, 255, 255, 255>>

----------------------------------------------------------------------------
(* uint32_t arithmetic on <<hi, lo>> pairs *)

Add32(a, b) ==
    LET lo == a[2] + b[2]
        carry == IF lo >= W16 THEN 1 ELSE 0
    IN  <<(a[1] + b[1] + carry) % W16, lo % W16>>

Sub32(a, b) ==
    LET borrow == IF a[2] < b[2] THEN 1 ELSE 0
    IN  <<(a[1] - b[1] - borrow + 2 * W16) % W16, (a[2] - b[2] + W16) % W16>>

\* (int32_t)x < 0
Neg32(x) == x[1] >= HALF16

\* x >> 16 of a uint32_t
Shr16(x) == x[1]

----------------------------------------------------------------------------
(* Inputs *)

ZeroMac == <<0, 0, 0, 0, 0, 0>>
MacA == <<2, 0, 0, 0, 0, 1>>
MacB == <<2, 0, 0, 0, 0, 2>>
MacC == <<0, 0, 0, 0, 0, 1>>
MACs == {ZeroMac, MacA, MacB, MacC}
\* the clients that go on to send REQUEST; MacC only ever probes with DISCOVER
Requesters == {ZeroMac, MacA, MacB}

\* values of cyw43_hal_ticks_ms(): 70,000; 2^32 - 200,000,000; 2^32 - 1,000
TickEarly == <<1, 4464>>
TickLate == <<62484, 15872>>
TickWrap == <<65535, 64536>>
Ticks == {TickEarly, TickLate, TickWrap}

Slots == 0 .. (DHCPS_MAX_IP - 1)

\* option areas (the bytes after the magic cookie) of the datagrams delivered
DiscoverOpts == <<DHCP_OPT_MSG_TYPE, 1, DHCPDISCOVER, DHCP_OPT_END>>
RequestOpts(ip) ==
    <<DHCP_OPT_MSG_TYPE, 1, DHCPREQUEST, DHCP_OPT_REQUESTED_IP, 4,
      ip[1], ip[2], ip[3], ip[4], DHCP_OPT_END>>

SlotIp(s) == <<ServerIp[1], ServerIp[2], ServerIp[3], (DHCPS_BASE_IP + s) % 256>>

PoolIps == {SlotIp(s) : s \in Slots}

\* one past the pool, below the pool, and another subnet
BadIps ==
    {SlotIp(DHCPS_MAX_IP),
     <<ServerIp[1], ServerIp[2], ServerIp[3], 1>>,
     <<ServerIp[1], ServerIp[2], 5, DHCPS_BASE_IP>>}

OddOpts ==
    { <<DHCP_OPT_MSG_TYPE, 1, DHCPREQUEST, DHCP_OPT_END>>,
      <<DHCP_OPT_MSG_TYPE, 1, DHCPRELEASE, DHCP_OPT_END>>,
      <<DHCP_OPT_HOST_NAME, 1, 65, DHCP_OPT_END>>,
      <<DHCP_OPT_MSG_TYPE, 1>> }

\* a datagram: its chaddr and its option bytes; and what the part of the
\* on-stack dhcp_msg_t that pbuf_copy_partial did not fill holds when the
\* datagram is handled: the bytes tail right after the received ones, then
\* the byte value stale
Datagram(m, o, s) == [chaddr |-> m, opts |-> o, tail |-> <<>>, stale |-> s]

\* the same datagram handled over a stack that holds the bytes tl
OverStack(d, tl) == [d EXCEPT !.tail = tl]

\* left-over option bytes: a REQUESTED_IP for the first pool address, and a
\* MSG_TYPE DISCOVER
StaleRequestedIp ==
    <<DHCP_OPT_REQUESTED_IP, 4, ServerIp[1], ServerIp[2], ServerIp[3], DHCPS_BASE_IP>>
StaleDiscover == <<DHCP_OPT_MSG_TYPE, 1, DHCPDISCOVER>>

\* datagrams whose option area ends without END
Unterminated ==
    {OverStack(Datagram(MacA, <<DHCP_OPT_MSG_TYPE, 1, DHCPREQUEST>>, 0), StaleRequestedIp),
     OverStack(Datagram(MacA, <<DHCP_OPT_HOST_NAME, 1, 65>>, 0), StaleDiscover)}

Datagrams ==
    {Datagram(m, DiscoverOpts, 0) : m \in MACs}
    \cup {Datagram(m, RequestOpts(ip), 0) : m \in Requesters, ip \in PoolIps}
    \cup {Datagram(MacA, RequestOpts(ip), 0) : ip \in BadIps}
    \cup {Datagram(MacA, o, 0) : o \in OddOpts}
    \cup {Datagram(MacA, <<DHCP_OPT_MSG_TYPE, 1, DHCPREQUEST>>, s) :
              s \in {0, DHCP_OPT_REQUESTED_IP, DHCP_OPT_END}}
    \cup Unterminated

\* p->tot_len
TotLen(d) == OPT_OFFSET + Len(d.opts)

NoMsg == [kind |-> "none"]
NoReply == [kind |-> "none"]
NoTrack == [kind |-> "none"]

----------------------------------------------------------------------------
(* dhcpserver.c helpers *)

Max2(a, b) == IF a >= b THEN a ELSE b

\* opt[i] of the local dhcp_msg_t: received bytes, then whatever the stack held
OptByte(d, i) ==
    IF i < Len(d.opts) THEN d.opts[i + 1]
    ELSE IF i < Len(d.opts) + Len(d.tail) THEN d.tail[i - Len(d.opts) + 1]
    ELSE d.stale

\* opt_find: index of the option within the option area, or -1 for NULL
RECURSIVE opt_find_from(_, _, _)
opt_find_from(d, cmd, i) ==
    IF ~(i < OPT_SCAN_LIMIT /\ OptByte(d, i) # DHCP_OPT_END) THEN -1
    ELSE IF OptByte(d, i) = cmd THEN i
    \* past the listed bytes every byte is d.stale # cmd: the loop only steps
    \* by 2 + d.stale until i reaches the scan limit, and returns NULL
    ELSE IF i >= Len(d.opts) + Len(d.tail) THEN -1
    ELSE opt_find_from(d, cmd, i + 2 + OptByte(d, i + 1))

opt_find(d, cmd) == opt_find_from(d, cmd, 0)

\* the highest index of opt[] that opt_find reads on the same walk : opt[i]
\* in the loop test and the comparison, opt[i + 1] in the step (-1: no read)
RECURSIVE opt_find_last_read(_, _, _)
opt_find_last_read(d, cmd, i) ==
    IF ~(i < OPT_SCAN_LIMIT) THEN -1
    ELSE IF OptByte(d, i) = DHCP_OPT_END \/ OptByte(d, i) = cmd THEN i
    ELSE IF i >= Len(d.opts) + Len(d.tail)
         THEN i + ((OPT_SCAN_LIMIT - 1 - i) \div (2 + d.stale)) * (2 + d.stale) + 1
    ELSE LET rest == opt_find_last_read(d, cmd, i + 2 + OptByte(d, i + 1))
         IN  IF rest > i + 1 THEN rest ELSE i + 1

\* the highest index of opt[] that dhcp_server_process reads for a datagram
\* that passes the length check: the two walks, msgtype[2] and o[2] .. o[5]
LastOptionRead(d) ==
    LET msgtype == opt_find(d, DHCP_OPT_MSG_TYPE)
        walk1 == opt_find_last_read(d, DHCP_OPT_MSG_TYPE, 0)
        o == opt_find(d, DHCP_OPT_REQUESTED_IP)
        walk2 == opt_find_last_read(d, DHCP_OPT_REQUESTED_IP, 0)
        \* memcmp(o + 2, ..., 3) is given o[2] .. o[4]; o[5] is read when they
        \* are the server's
        addr == IF <<OptByte(d, o + 2), OptByte(d, o + 3), OptByte(d, o + 4)>>
                      = <<ServerIp[1], ServerIp[2], ServerIp[3]>>
                THEN o + 5 ELSE o + 4
    IN  IF msgtype = -1 THEN walk1
        ELSE IF OptByte(d, msgtype + 2) # DHCPREQUEST THEN msgtype + 2
        ELSE IF o = -1 THEN Max2(msgtype + 2, walk2)
        ELSE Max2(msgtype + 2, addr)

opt_write_u8(cmd, val) == <<cmd, 1, val>>
opt_write_n(cmd, data) == <<cmd, Len(data)>> \o data
opt_write_u32(cmd, bytes) == <<cmd, 4>> \o bytes

\* the common tail of OFFER and ACK, from the MSG_TYPE option to END
ReplyOptionsMutRouterFirst(msgtype) ==
    opt_write_u8(DHCP_OPT_MSG_TYPE, msgtype)
    \o opt_write_n(DHCP_OPT_SERVER_ID, ServerIp)
    \o opt_write_n(DHCP_OPT_ROUTER, ServerIp)
    \o opt_write_n(DHCP_OPT_SUBNET_MASK, ServerNm)
    \o opt_write_n(DHCP_OPT_DNS, ServerIp)
    \o opt_write_u32(DHCP_OPT_IP_LEASE_TIME, DEFAULT_LEASE_TIME_S_BYTES)
    \o <<DHCP_OPT_END>>
ReplyOptions(msgtype) ==
    opt_write_u8(DHCP_OPT_MSG_TYPE, msgtype)
    \o opt_write_n(DHCP_OPT_SERVER_ID, ServerIp)
    \o opt_write_n(DHCP_OPT_SUBNET_MASK, ServerNm)
    \o opt_write_n(DHCP_OPT_ROUTER, ServerIp)
    \o opt_write_n(DHCP_OPT_DNS, ServerIp)
    \o opt_write_u32(DHCP_OPT_IP_LEASE_TIME, DEFAULT_LEASE_TIME_S_BYTES)
    \o <<DHCP_OPT_END>>

\* the datagram dhcp_socket_sendto is given
MakeReply(d, msgtype, yi) ==
    [kind |-> "sent",
     op |-> DHCPOFFER,
     chaddr |-> d.chaddr,
     yiaddr |-> SlotIp(yi),
     options |-> ReplyOptions(msgtype),
     len |-> OPT_OFFSET + Len(ReplyOptions(msgtype)),
     dst |-> BroadcastIp,
     port |-> PORT_DHCP_CLIENT]

\* uint32_t expiry = d->lease[i].expiry << 16 | 0xffff
ExpiryMutNoFill(e) == <<e, 0>>
ExpiryFull(e) == <<e, W16 - 1>>

\* unsigned comparison x < y of two uint32_t
Less32(x, y) == x[1] < y[1] \/ (x[1] = y[1] /\ x[2] < y[2])

\* (int32_t)(expiry - cyw43_hal_ticks_ms()) < 0
LeaseExpiredMutUnsigned(e, t) == Less32(ExpiryFull(e), t)
LeaseExpiredMutSwapped(e, t) == Neg32(Sub32(t, ExpiryFull(e)))
LeaseExpired(e, t) == Neg32(Sub32(ExpiryFull(e), t))

\* (cyw43_hal_ticks_ms() + DEFAULT_LEASE_TIME_S * 1000) >> 16
NewExpiryMutNoWrap(t) == t[1] + LEASE_MS_HI
NewExpiry(t) == Shr16(Add32(t, DEFAULT_LEASE_TIME_MS))

\* memset(d->lease[i].mac, 0, MAC_LEN)
ClearMacMutWholeEntry(L, i) == [L EXCEPT ![i] = [mac |-> ZeroMac, expiry |-> 0]]
ClearMac(L, i) == [L EXCEPT ![i].mac = ZeroMac]

\* the DISCOVER loop from slot i on; yi = DHCPS_MAX_IP while nothing is chosen
RECURSIVE DiscoverScanMutFirstWins(_, _, _, _, _)
DiscoverScanMutFirstWins(i, yi, L, chaddr, t) ==
    IF i = DHCPS_MAX_IP THEN [yi |-> yi, lease |-> L]
    ELSE IF yi # DHCPS_MAX_IP THEN [yi |-> yi, lease |-> L]
    ELSE IF L[i].mac = chaddr THEN [yi |-> i, lease |-> L]
    ELSE LET free == L[i].mac = ZeroMac
             exp == LeaseExpired(L[i].expiry, t)
         IN  DiscoverScanMutFirstWins(i + 1,
                 IF free \/ exp THEN i ELSE yi,
                 IF exp THEN ClearMac(L, i) ELSE L, chaddr, t)

RECURSIVE DiscoverScan(_, _, _, _, _)
DiscoverScan(i, yi, L, chaddr, t) ==
    IF i = DHCPS_MAX_IP THEN [yi |-> yi, lease |-> L]
    ELSE IF L[i].mac = chaddr THEN [yi |-> i, lease |-> L]
    ELSE IF yi = DHCPS_MAX_IP
         THEN LET free == L[i].mac = ZeroMac
                  exp == LeaseExpired(L[i].expiry, t)
              IN  DiscoverScan(i + 1,
                      IF free \/ exp THEN i ELSE yi,
                      IF exp THEN ClearMac(L, i) ELSE L, chaddr, t)
         ELSE DiscoverScan(i + 1, yi, L, chaddr, t)

Drop(L) == [lease |-> L, reply |-> NoReply]

\* case DHCPDISCOVER
\* case DHCPDISCOVER, if it wrote the requester into the slot it offers
HandleDiscoverMutCommit(d, t, L) ==
    LET r == DiscoverScan(0, DHCPS_MAX_IP, L, d.chaddr, t)
    IN  IF r.yi = DHCPS_MAX_IP
        THEN [lease |-> r.lease, reply |-> NoReply]
        ELSE [lease |-> [r.lease EXCEPT ![r.yi].mac = d.chaddr],
              reply |-> MakeReply(d, DHCPOFFER, r.yi)]
HandleDiscover(d, t, L) ==
    LET r == DiscoverScan(0, DHCPS_MAX_IP, L, d.chaddr, t)
    IN  IF r.yi = DHCPS_MAX_IP
        THEN [lease |-> r.lease, reply |-> NoReply]
        ELSE [lease |-> r.lease, reply |-> MakeReply(d, DHCPOFFER, r.yi)]

\* the slot test of case DHCPREQUEST: may this client take slot yi?
SlotUsableMutTakeExpired(L, yi, chaddr, t) ==
    \/ L[yi].mac = chaddr
    \/ L[yi].mac = ZeroMac
    \/ LeaseExpired(L[yi].expiry, t)
SlotUsable(L, yi, chaddr, t) ==
    \/ L[yi].mac = chaddr
    \/ L[yi].mac = ZeroMac

\* case DHCPREQUEST
HandleRequest(d, t, L) ==
    LET o == opt_find(d, DHCP_OPT_REQUESTED_IP)
    IN  IF o = -1 THEN Drop(L)
        ELSE IF <<OptByte(d, o + 2), OptByte(d, o + 3), OptByte(d, o + 4)>>
                    # <<ServerIp[1], ServerIp[2], ServerIp[3]>> THEN Drop(L)
        ELSE LET yi == (OptByte(d, o + 5) - DHCPS_BASE_IP + 256) % 256
             IN  IF yi >= DHCPS_MAX_IP THEN Drop(L)
                 ELSE IF ~SlotUsable(L, yi, d.chaddr, t) THEN Drop(L)
                 ELSE [lease |-> [L EXCEPT ![yi] =
                                     [mac |-> d.chaddr, expiry |-> NewExpiry(t)]],
                       reply |-> MakeReply(d, DHCPACK, yi)]

\* dhcp_server_process as a function of the datagram, the tick and the table
Process(d, t, L) ==
    IF TotLen(d) < DHCP_MIN_SIZE THEN Drop(L)
    ELSE LET msgtype == opt_find(d, DHCP_OPT_MSG_TYPE)
         IN  IF msgtype = -1 THEN Drop(L)
             ELSE IF OptByte(d, msgtype + 2) = DHCPDISCOVER THEN HandleDiscover(d, t, L)
             ELSE IF OptByte(d, msgtype + 2) = DHCPREQUEST THEN HandleRequest(d, t, L)
             ELSE Drop(L)

----------------------------------------------------------------------------
(* Observer of one OFFER -> REQUEST -> ACK exchange.  It follows the most   *)
(* recent OFFER, and forgets it as soon as a datagram of another client, or *)
(* a REQUEST of the same client for another address, changes the table.     *)

IsDiscover(d) ==
    /\ TotLen(d) >= DHCP_MIN_SIZE
    /\ opt_find(d, DHCP_OPT_MSG_TYPE) # -1
    /\ OptByte(d, opt_find(d, DHCP_OPT_MSG_TYPE) + 2) = DHCPDISCOVER

IsRequest(d) ==
    /\ TotLen(d) >= DHCP_MIN_SIZE
    /\ opt_find(d, DHCP_OPT_MSG_TYPE) # -1
    /\ OptByte(d, opt_find(d, DHCP_OPT_MSG_TYPE) + 2) = DHCPREQUEST

\* the requested address of a REQUEST that carries one in its received bytes
RequestedIp(d) ==
    LET o == opt_find(d, DHCP_OPT_REQUESTED_IP)
    IN  <<OptByte(d, o + 2), OptByte(d, o + 3), OptByte(d, o + 4), OptByte(d, o + 5)>>

HasRequestedIp(d) == opt_find(d, DHCP_OPT_REQUESTED_IP) # -1

IsOffer(r) == r.kind = "sent" /\ r.options[3] = DHCPOFFER
IsAck(r) == r.kind = "sent" /\ r.options[3] = DHCPACK

NextTrack(tr, d, L, res) ==
    IF IsDiscover(d) /\ IsOffer(res.reply)
    THEN IF tr.kind = "offer" /\ tr.mac = d.chaddr /\ tr.acked
                /\ tr.addr = res.reply.yiaddr
         THEN tr
         ELSE [kind |-> "offer", mac |-> d.chaddr, addr |-> res.reply.yiaddr,
               acked |-> FALSE]
    ELSE IF tr.kind = "none" THEN tr
    ELSE IF d.chaddr = tr.mac /\ IsRequest(d) /\ HasRequestedIp(d)
               /\ RequestedIp(d) = tr.addr
         THEN IF IsAck(res.reply) THEN [tr EXCEPT !.acked = TRUE] ELSE tr
    ELSE IF res.lease # L /\ (d.chaddr # tr.mac \/ IsRequest(d)) THEN NoTrack
    ELSE tr

----------------------------------------------------------------------------
(* The DHCP server as a state machine *)

\* dhcp_server_init: memset(d->lease, 0, sizeof(d->lease))
InitDhcp ==
    /\ lease = [s \in Slots |-> [mac |-> ZeroMac, expiry |-> 0]]
    /\ old = lease
    /\ req = NoMsg
    /\ reply = NoReply
    /\ track = NoTrack

\* one datagram delivered to dhcp_server_process at tick t
dhcp_server_process(d, t) ==
    LET res == Process(d, t, lease)
    IN  /\ old' = lease
        /\ req' = [kind |-> "dgram", d |-> d, now |-> t]
        /\ lease' = res.lease
        /\ reply' = res.reply
        /\ UNCHANGED <<track, conn, dns, resp, clk>>

\* the same step, with the exchange observer following it
dhcp_server_process_observed(d, t) ==
    LET res == Process(d, t, lease)
    IN  /\ old' = lease
        /\ req' = [kind |-> "dgram", d |-> d, now |-> t]
        /\ lease' = res.lease
        /\ reply' = res.reply
        /\ track' = NextTrack(track, d, lease, res)
        /\ UNCHANGED <<conn, dns, resp, clk>>

\* cyw43_hal_ticks_ms() is an input of the calls that can reach a clock read
\* (the DISCOVER scan, the REQUEST commit); the others get one fixed tick
MayReadClock(d) ==
    \/ IsDiscover(d)
    \/ IsRequest(d) /\ HasRequestedIp(d) /\ RequestedIp(d) \in PoolIps

TicksOf(d) == IF MayReadClock(d) THEN Ticks ELSE {TickEarly}

\* the observed exchanges use one tick on each side of a lease's expiry
LeaseTicksOf(d) == IF MayReadClock(d) THEN {TickEarly, TickLate} ELSE {TickEarly}

NextDhcp == \E d \in Datagrams : \E t \in TicksOf(d) : dhcp_server_process(d, t)

NextLease ==
    \E d \in Datagrams : \E t \in LeaseTicksOf(d) : dhcp_server_process_observed(d, t)

----------------------------------------------------------------------------
(* The DHCP server under a clock that only moves forward *)

\* the clock advances of one behaviour that are not zero
MaxAdvances == 2

\* milliseconds since boot as <<n \div 2^16, n % 2^16>>, not reduced modulo 2^32
AddReal(a, b) ==
    LET lo == a[2] + b[2]
    IN  <<a[1] + b[1] + (lo \div W16), lo % W16>>

\* a - b for a >= b
SinceReal(a, b) ==
    LET borrow == IF a[2] < b[2] THEN 1 ELSE 0
    IN  <<a[1] - b[1] - borrow, (a[2] - b[2] + W16) % W16>>

\* cyw43_hal_ticks_ms(): the milliseconds since boot as a uint32_t
cyw43_hal_ticks_ms(now) == <<now[1] % W16, now[2]>>

\* time that passes between two datagrams: none, one millisecond less than a
\* lease, a lease and one unit of the stored expiry, and the step that brings
\* tick + 86,400,000 past 2^32
StepNone == <<0, 0>>
StepAlmostLease == SinceReal(DEFAULT_LEASE_TIME_MS, <<0, 1>>)
StepLeaseAndUnit == AddReal(DEFAULT_LEASE_TIME_MS, <<1, 0>>)
StepNearWrap == <<W16 - LEASE_MS_HI, 0>>
ClockSteps == {StepNone, StepAlmostLease, StepLeaseAndUnit, StepNearWrap}

ClockMacs == {ZeroMac, MacA, MacB}

ClockDatagrams ==
    {Datagram(m, DiscoverOpts, 0) : m \in ClockMacs}
    \cup {Datagram(m, RequestOpts(SlotIp(s)), 0) :
              m \in ClockMacs, s \in {0, DHCPS_MAX_IP - 1}}

NoAck == [held |-> FALSE, mac |-> ZeroMac, at |-> <<0, 0>>]

InitClk ==
    clk = [now |-> <<0, 0>>, advances |-> 0,
           ack |-> [s \in Slots |-> NoAck], before |-> [s \in Slots |-> NoAck]]

\* the slot an ACK is for
AckSlot(r) == CHOOSE s \in Slots : r.yiaddr = SlotIp(s)

\* one datagram delivered to dhcp_server_process after dt more milliseconds;
\* clk.ack records, per slot, whom the last ACK went to and when, and
\* clk.before is that record as it was when the datagram arrived
dhcp_server_process_timed(d, dt) ==
    LET now == AddReal(clk.now, dt)
        t == cyw43_hal_ticks_ms(now)
        res == Process(d, t, lease)
    IN  /\ dt = StepNone \/ clk.advances < MaxAdvances
        /\ old' = lease
        /\ req' = [kind |-> "dgram", d |-> d, now |-> t]
        /\ lease' = res.lease
        /\ reply' = res.reply
        /\ clk' = [now |-> now,
                   advances |-> clk.advances + (IF dt = StepNone THEN 0 ELSE 1),
                   ack |-> IF IsAck(res.reply)
                           THEN [clk.ack EXCEPT ![AckSlot(res.reply)] =
                                    [held |-> TRUE, mac |-> d.chaddr, at |-> now]]
                           ELSE clk.ack,
                   before |-> clk.ack]
        /\ UNCHANGED <<track, conn, dns, resp>>

NextClock == \E d \in ClockDatagrams : \E dt \in ClockSteps : dhcp_server_process_timed(d, dt)

----------------------------------------------------------------------------
(* HTTP: request texts, as sequences of characters *)

ReqRoot == <<"G", "E", "T", " ", "/", " ", "H", "T", "T", "P">>
ReqIndex == <<"G", "E", "T", " ", "/", "i", "n", "d", "e", "x", " ">>
ReqOther == <<"G", "E", "T", " ", "/", "o", "t", "h", "e", "r", " ">>
ReqPost == <<"P", "O", "S", "T", " ", "/", " ">>
ReqRootLine ==
    <<"G", "E", "T", " ", "/", " ", "H", "T", "T", "P", "/", "1", ".", "1", "\r", "\n">>
ReqIndexFoo == <<"G", "E", "T", " ", "/", "i", "n", "d", "e", "x", "f", "o", "o", " ">>
Requests == {ReqRoot, ReqIndex, ReqOther, ReqPost, ReqRootLine, ReqIndexFoo}

\* n copies of the character ch
Pad(n, ch) == [i \in 1 .. n |-> ch]

\* requests around the size of the receive buffer: 511 bytes, 512 bytes, and
\* two of 600 bytes that agree on their first 511
Long511 == ReqOther \o Pad(500, "a")
Long512 == Long511 \o <<"b">>
Long600A == Long511 \o Pad(89, "x")
Long600B == Long511 \o Pad(89, "y")
LongPage == ReqIndex \o Pad(589, "a")
LongRequests == {Long511, Long512, Long600A, Long600B, LongPage}

LitGetRoot == <<"G", "E", "T", " ", "/", " ">>
LitGetIndex == <<"G", "E", "T", " ", "/", "i", "n", "d", "e", "x">>

\* sizeof(connection_state_t.headers)
HEADERS_BUF == 512
\* strlen of the page get_html_content returns, and of the 404 text
HTML_LEN == 1329
NOT_FOUND_LEN == 24

\* sum of a sequence of numbers
RECURSIVE SumSeq(_)
SumSeq(sq) == IF sq = <<>> THEN 0 ELSE Head(sq) + SumSeq(Tail(sq))

\* strncmp(s, lit, n) == 0 for a literal of at least n characters
StrNEq(s, lit, n) == Len(s) >= n /\ SubSeq(s, 1, n) = SubSeq(lit, 1, n)

----------------------------------------------------------------------------
(* http_response.c.  A Response is modelled with the heap it allocates from: *)
(*   headers      the header text, as the pieces written into it: the line  *)
(*                "key: value\r\n" and the number of its bytes kept         *)
(*   headers_len  the field of that name                                    *)
(*   body         the index in heap of the owned block, 0 for NULL          *)
(*   heap         the blocks malloc returned, each "live" or "freed"        *)
(*   frees        number of free() calls, dfree those on a freed block      *)

\* sizeof(http_response_t.headers) and sizeof(value_buffer)
MAX_HEADERS_SIZE == 1024
VALUE_BUF == 256

NULL == 0

init_http_response ==
    [status_code |-> 0, status_message |-> "NULL", headers |-> <<>>,
     headers_len |-> 0, body |-> NULL, body_len |-> 0,
     heap |-> <<>>, frees |-> 0, dfree |-> 0]

\* malloc that succeeds: a new live block holding a copy of text
Malloc(r, text, len, owner) ==
    [r EXCEPT !.heap = Append(@, [text |-> text, len |-> len, st |-> "live",
                                  owner |-> owner])]

\* free(p) for a non-null p
Free(r, p) ==
    [r EXCEPT !.heap[p].st = "freed",
              !.frees = @ + 1,
              !.dfree = IF r.heap[p].st = "freed" THEN @ + 1 ELSE @]

set_response_status(r, code, message) ==
    [r EXCEPT !.status_code = code, !.status_message = message]

\* strlen(response->headers): the bytes before the first NUL
TextLen(hs) == SumSeq([i \in 1 .. Len(hs) |-> hs[i].kept])

\* the header text cut to its first n bytes
RECURSIVE CutText(_, _)
CutText(hs, n) ==
    IF hs = <<>> \/ n <= 0 THEN <<>>
    ELSE IF hs[1].kept <= n THEN <<hs[1]>> \o CutText(Tail(hs), n - hs[1].kept)
    ELSE <<[hs[1] EXCEPT !.kept = n]>>

\* snprintf(headers + off, size, "%s: %s\r\n", key, value) keeps n bytes of the
\* line and a NUL behind them; bytes written behind an earlier NUL do not show
WriteAt(hs, off, key, value, n) ==
    IF off > TextLen(hs) THEN hs
    ELSE IF n = 0 THEN CutText(hs, off)
    ELSE Append(CutText(hs, off), [key |-> key, value |-> value, kept |-> n])

\* add_response_header(response, key, "%s", value); value: the formatted text
add_response_headerMutNoClamp(r, key, value) ==
    LET written == Len(value)
        remaining_space == MAX_HEADERS_SIZE - r.headers_len
        written_result == Len(key) + 2 + written + 2
        fits == IF written_result < remaining_space THEN written_result
                ELSE remaining_space - 1
    IN  IF written > 0 /\ written < VALUE_BUF
        THEN [r EXCEPT !.headers = WriteAt(@, r.headers_len, key, value, fits),
                       !.headers_len = @ + written_result]
        ELSE r
add_response_headerMutUnbounded(r, key, value) ==
    LET written == Len(value)
        written_result == Len(key) + 2 + written + 2
    IN  IF written > 0 /\ written < VALUE_BUF
        THEN [r EXCEPT !.headers = WriteAt(@, r.headers_len, key, value, written_result),
                       !.headers_len = @ + written_result]
        ELSE r
add_response_header(r, key, value) ==
    LET written == Len(value)
        remaining_space == MAX_HEADERS_SIZE - r.headers_len
        written_result == Len(key) + 2 + written + 2
    IN  IF written > 0 /\ written < VALUE_BUF
        THEN IF written_result < remaining_space
             THEN [r EXCEPT !.headers = WriteAt(@, r.headers_len, key, value,
                                                written_result),
                            !.headers_len = @ + written_result]
             ELSE [r EXCEPT !.headers = WriteAt(@, r.headers_len, key, value,
                                                remaining_space - 1),
                            !.headers_len = MAX_HEADERS_SIZE - 1]
        ELSE r

\* body: the text to copy ("NULL" for a null pointer), len its strlen;
\* ok: whether malloc(body_len + 1) succeeds
set_response_bodyMutKeepOld(r, body, len, ok) ==
    IF body = "NULL" THEN [r EXCEPT !.body = NULL, !.body_len = 0]
    ELSE IF ok
         THEN [Malloc(r, body, len, "body") EXCEPT !.body = Len(r.heap) + 1,
                                                   !.body_len = len]
         ELSE [r EXCEPT !.body = NULL, !.body_len = 0]
set_response_body(r, body, len, ok) ==
    LET r1 == IF r.body # NULL THEN [Free(r, r.body) EXCEPT !.body = NULL] ELSE r
    IN  IF body = "NULL" THEN [r1 EXCEPT !.body = NULL, !.body_len = 0]
        ELSE IF ok
             THEN [Malloc(r1, body, len, "body") EXCEPT !.body = Len(r1.heap) + 1,
                                                        !.body_len = len]
             ELSE [r1 EXCEPT !.body = NULL, !.body_len = 0]

free_http_response(r) ==
    [(IF r.body # NULL THEN Free(r, r.body) ELSE r)
        EXCEPT !.body = NULL,
               !.status_code = 0, !.status_message = "NULL",
               !.headers = <<>>, !.headers_len = 0, !.body_len = 0]

\* get_html_content: a malloc'd copy of the page, or NULL
get_html_content(r, htmlOk) ==
    IF htmlOk THEN Malloc(r, "html", HTML_LEN, "html") ELSE r

\* handle_route; htmlOk: malloc in get_html_content succeeds; bodyOk: malloc in
\* set_response_body succeeds
IsPageRoute(request) ==
    StrNEq(request, LitGetRoot, 6) \/ StrNEq(request, LitGetIndex, 10)

handle_route(request, htmlOk, bodyOk) ==
    IF IsPageRoute(request)
    THEN set_response_body(get_html_content(init_http_response, htmlOk),
                           IF htmlOk THEN "html" ELSE "NULL", HTML_LEN, bodyOk)
    ELSE set_response_body(
             add_response_header(
                 set_response_status(init_http_response, 404, "Not Found"),
                 "Content-Type", "text/plain"),
             "not_found", NOT_FOUND_LEN, bodyOk)

\* the header lines as they are printed with "%s"
Lines(r) ==
    [i \in 1 .. Len(r.headers) |->
        [key |-> r.headers[i].key, value |-> r.headers[i].value]]

\* the status line and headers tcp_server_recv assembles in http_response_buffer
HeaderBlockMutNoLength(r) ==
    [part |-> "head",
     status_code |-> r.status_code,
     status_message |-> r.status_message,
     headers |-> Lines(r)]
HeaderBlock(r) ==
    [part |-> "head",
     status_code |-> r.status_code,
     status_message |-> r.status_message,
     headers |->
         IF \E i \in 1 .. Len(r.headers) : r.headers[i].key = "Content-Length"
         THEN Lines(r)
         ELSE Append(Lines(r), [key |-> "Content-Length", value |-> r.body_len])]

BodyBlock(r) ==
    [part |-> "body", body |-> r.heap[r.body].text, len |-> r.body_len]

----------------------------------------------------------------------------
(* http_server.c.  The connection record:                                   *)
(*   pcb     "listen" before accept, "open", "closed" once tcp_close was    *)
(*           called, "aborted" when the transport dropped it                *)
(*   arg     the callback argument set by tcp_arg: "state" or "null"        *)
(*   sentcb  the callback registered by tcp_sent                            *)
(*   st      the connection_state_t block: "none", "live" or "freed"        *)
(*   frees   number of free() calls made on that block                      *)
(*   buf     state->headers, the copied request text                        *)
(*   sndq    the writes accepted by tcp_write, in order                     *)
(*   acked   how many of them the peer has acknowledged                     *)
(*   closedAt  the value of acked when tcp_close was first called (-1       *)
(*           before), closedBy the callback that called it                  *)
(*   ev      the last callback run and its return value                     *)
(*   rx      the payload of the last packet buffer delivered, nul the index *)
(*           in state->headers where the terminating NUL was written        *)
(*   pbuf    what the last receive callback did with its packet buffer      *)
(*   oom     an allocation failed while the last request was served         *)
(*   wr      the tcp_write the transport rejected in the last data          *)
(*           delivery: "head", "body" or "none"                             *)
(*   mem     the Response body blocks of the last data delivery: how many   *)
(*           were allocated, free() calls, blocks live at return, double    *)
(*           frees                                                          *)

InitConn ==
    conn = [pcb |-> "listen", arg |-> "null", sentcb |-> "none", st |-> "none",
            frees |-> 0, buf |-> <<>>, sndq |-> <<>>, acked |-> 0, rxfin |-> FALSE,
            ndeliv |-> 0, leaked |-> 0, halted |-> FALSE,
            closedAt |-> -1, closedBy |-> "none",
            ev |-> [cb |-> "none", ret |-> "ERR_OK"],
            rx |-> <<>>, nul |-> -1, pbuf |-> "none", oom |-> FALSE, wr |-> "none",
            mem |-> [allocs |-> 0, frees |-> 0, live |-> 0, dfree |-> 0]]

\* close_connection(tpcb, state) called from callback by, with state = c.arg
close_connectionMutKeepArg(c, by) ==
    [c EXCEPT !.st = IF c.arg = "state" THEN "freed" ELSE @,
              !.frees = IF c.arg = "state" THEN @ + 1 ELSE @,
              !.pcb = "closed",
              !.closedAt = IF c.pcb = "open" THEN c.acked ELSE @,
              !.closedBy = IF c.pcb = "open" THEN by ELSE @]
close_connection(c, by) ==
    [c EXCEPT !.st = IF c.arg = "state" THEN "freed" ELSE @,
              !.frees = IF c.arg = "state" THEN @ + 1 ELSE @,
              !.arg = "null",
              !.pcb = "closed",
              !.closedAt = IF c.pcb = "open" THEN c.acked ELSE @,
              !.closedBy = IF c.pcb = "open" THEN by ELSE @]

Ret(c, cb, ret) == [c EXCEPT !.ev = [cb |-> cb, ret |-> ret]]

\* tcp_server_accept(arg, newpcb, err)
tcp_server_accept(err, callocOk) ==
    /\ conn.pcb = "listen"
    /\ ~conn.halted
    /\ conn' =
         IF err # "ERR_OK" THEN Ret([conn EXCEPT !.pcb = "aborted"], "accept", err)
         ELSE IF ~callocOk THEN Ret([conn EXCEPT !.pcb = "aborted"], "accept", "ERR_MEM")
         ELSE Ret([conn EXCEPT !.pcb = "open", !.st = "live", !.arg = "state",
                               !.sentcb = "tcp_server_sent"], "accept", "ERR_OK")
    /\ UNCHANGED <<dhcpVars, dns, resp, clk>>

\* copy_len of tcp_server_recv for a packet buffer of tot_len bytes
CopyLenMutWholeBuffer(tot_len) ==
    IF tot_len < HEADERS_BUF THEN tot_len ELSE HEADERS_BUF
CopyLen(tot_len) ==
    IF tot_len < HEADERS_BUF THEN tot_len ELSE HEADERS_BUF - 1

\* the blocks of a Response's heap with the given owner and state
Blocks(r, owner, sts) ==
    {i \in 1 .. Len(r.heap) : r.heap[i].owner = owner /\ r.heap[i].st \in sts}

\* free_http_response(&response) and pbuf_free(p) at the end of a data
\* delivery; the block of get_html_content is freed by nobody
ReleaseMutSkipFree(c, response) ==
    [c EXCEPT !.leaked = @ + Cardinality(Blocks(response, "html", {"live"})),
              !.mem = [allocs |-> Cardinality(Blocks(response, "body", {"live", "freed"})),
                       frees |-> response.frees,
                       live |-> Cardinality(Blocks(response, "body", {"live"})),
                       dfree |-> response.dfree],
              !.pbuf = "freed"]
Release(c, response) ==
    LET r == free_http_response(response)
    IN  [c EXCEPT !.leaked = @ + Cardinality(Blocks(r, "html", {"live"})),
                  !.mem = [allocs |-> Cardinality(Blocks(r, "body", {"live", "freed"})),
                           frees |-> r.frees,
                           live |-> Cardinality(Blocks(r, "body", {"live"})),
                           dfree |-> r.dfree],
                  !.pbuf = "freed"]

\* tcp_write returned wr_err != ERR_OK for the header or the body:
\* free_http_response, close_connection, pbuf_free, return wr_err
WriteRejectedMutNoClose(c, response, which) ==
    Ret(Release([c EXCEPT !.wr = which], response), "recv", "ERR_MEM")
WriteRejected(c, response, which) ==
    Ret(close_connection(Release([c EXCEPT !.wr = which], response), "recv"),
        "recv", "ERR_MEM")

\* tcp_server_recv with p != NULL and err == ERR_OK, as a function of the
\* connection; hdrOk, bodyOk: the two tcp_write calls succeed
RecvData(c, text, htmlOk, mallocOk, hdrOk, bodyOk) ==
    LET copy_len == CopyLen(Len(text))
        c1 == [c EXCEPT !.rx = text, !.buf = SubSeq(text, 1, copy_len),
                        !.nul = copy_len, !.ndeliv = @ + 1]
        response == handle_route(c1.buf, htmlOk, mallocOk)
        c2 == [c1 EXCEPT !.oom = IF IsPageRoute(c1.buf) THEN ~htmlOk \/ ~mallocOk
                                 ELSE ~mallocOk]
    IN  IF ~hdrOk
        THEN WriteRejected(c2, response, "head")
        ELSE LET c3 == [c2 EXCEPT !.sndq = Append(@, HeaderBlock(response))]
             IN  IF response.body # NULL /\ response.body_len > 0
                 THEN IF ~bodyOk
                      THEN WriteRejected(c3, response, "body")
                      ELSE Ret([Release(c3, response)
                                   EXCEPT !.sndq = Append(@, BodyBlock(response)),
                                          !.sentcb = "on_sent_close_connection",
                                          !.wr = "none"],
                               "recv", "ERR_OK")
                 ELSE Ret([Release(c3, response)
                              EXCEPT !.sentcb = "on_sent_close_connection",
                                     !.wr = "none"],
                          "recv", "ERR_OK")

\* the transport delivers request bytes: tcp_server_recv(arg, tpcb, p, ERR_OK)
tcp_server_recv(text, htmlOk, mallocOk, hdrOk, bodyOk) ==
    /\ conn.pcb = "open"
    /\ ~conn.halted
    /\ ~conn.rxfin
    /\ conn.ndeliv < MaxDeliveries
    /\ conn' = RecvData(conn, text, htmlOk, mallocOk, hdrOk, bodyOk)
    /\ UNCHANGED <<dhcpVars, dns, resp, clk>>

\* the client closed the stream: tcp_server_recv(arg, tpcb, NULL, ERR_OK)
tcp_server_recv_closed ==
    /\ conn.pcb \in {"open", "closed"}
    /\ ~conn.halted
    /\ ~conn.rxfin
    /\ conn' = Ret([close_connection(conn, "recv_closed")
                        EXCEPT !.rxfin = TRUE, !.pbuf = "none"],
                   "recv_closed", "ERR_OK")
    /\ UNCHANGED <<dhcpVars, dns, resp, clk>>

\* tcp_server_recv(arg, tpcb, p, err) with err != ERR_OK: pbuf_free(p); return err
RecvErrMutClose(c) ==
    Ret(close_connection([c EXCEPT !.pbuf = "freed"], "recv_err"), "recv_err", "ERR_VAL")
RecvErr(c) == Ret([c EXCEPT !.pbuf = "freed"], "recv_err", "ERR_VAL")

tcp_server_recv_err ==
    /\ conn.pcb = "open"
    /\ ~conn.halted
    /\ ~conn.rxfin
    /\ conn' = RecvErr(conn)
    /\ UNCHANGED <<dhcpVars, dns, resp, clk>>

on_sent_close_connectionMutNoClose(c) == Ret(c, "sent", "ERR_OK")
on_sent_close_connection(c) == Ret(close_connection(c, "sent"), "sent", "ERR_OK")

\* tcp_server_sent; connection_state_t.body is zeroed by calloc and assigned
\* nowhere, so with a live state the body branch is not taken.  With arg NULL
\* the read of state->body is a null dereference: the outcomes are a fault, a
\* non-null garbage body handed to tcp_write (which refuses it with ERR_CONN,
\* the pcb being closed whenever arg is NULL), or a null body and a close.
SentOutcomes(c) ==
    IF c.arg = "state"
    THEN {Ret(close_connection(c, "sent"), "sent", "ERR_OK")}
    ELSE {Ret([c EXCEPT !.halted = TRUE], "sent", "FAULT"),
          Ret(c, "sent", "ERR_CONN"),
          Ret(close_connection(c, "sent"), "sent", "ERR_OK")}

\* the peer acknowledged k more writes: the registered sent callback runs
tcp_sent_event(k) ==
    /\ conn.pcb \in {"open", "closed"}
    /\ ~conn.halted
    /\ conn.acked + k <= Len(conn.sndq)
    /\ LET c == [conn EXCEPT !.acked = @ + k]
       IN  IF c.sentcb = "on_sent_close_connection"
           THEN conn' = on_sent_close_connection(c)
           ELSE conn' \in SentOutcomes(c)
    /\ UNCHANGED <<dhcpVars, dns, resp, clk>>

NextHttp ==
    \/ \E err \in {"ERR_OK", "ERR_ABRT"}, callocOk \in BOOLEAN :
           tcp_server_accept(err, callocOk)
    \/ \E text \in Requests, htmlOk, mallocOk, hdrOk, bodyOk \in BOOLEAN :
           tcp_server_recv(text, htmlOk, mallocOk, hdrOk, bodyOk)
    \/ tcp_server_recv_closed
    \/ tcp_server_recv_err
    \/ \E k \in 1 .. (Len(conn.sndq) - conn.acked) : tcp_sent_event(k)

\* the same callbacks with long requests, the writes succeeding
NextCopy ==
    \/ \E callocOk \in BOOLEAN : tcp_server_accept("ERR_OK", callocOk)
    \/ \E text \in Requests \cup LongRequests, htmlOk, mallocOk \in BOOLEAN :
           tcp_server_recv(text, htmlOk, mallocOk, TRUE, TRUE)
    \/ \E k \in 1 .. (Len(conn.sndq) - conn.acked) : tcp_sent_event(k)

----------------------------------------------------------------------------
(* The response builder driven call by call: resp.r is the Response, resp.op *)
(* the last call made on it and resp.arg its arguments, resp.prev the call  *)
(* before it, resp.calls how many were made.                                 *)

\* header values: a short one, the longest the value buffer takes, one that
\* does not fit it, and an empty one
HeaderInputs ==
    {[key |-> "Content-Type", value |-> "text/plain"],
     [key |-> "X-Long", value |-> Pad(VALUE_BUF - 1, "a")],
     [key |-> "X-Wide", value |-> Pad(VALUE_BUF, "a")],
     [key |-> "X-Empty", value |-> ""]}

\* body texts and their strlen
BodyInputs ==
    {[text |-> "NULL", len |-> 0],
     [text |-> "html", len |-> HTML_LEN],
     [text |-> "not_found", len |-> NOT_FOUND_LEN],
     [text |-> "empty", len |-> 0]}

InitResp ==
    resp = [r |-> init_http_response, op |-> "init_http_response", arg |-> <<>>,
            prev |-> "none", calls |-> 0]

Call(op, arg, r) ==
    /\ resp.calls < MaxCalls
    /\ resp' = [r |-> r, op |-> op, arg |-> arg, prev |-> resp.op,
                calls |-> resp.calls + 1]
    /\ UNCHANGED <<dhcpVars, conn, dns, clk>>

AddHeader(key, value) ==
    Call("add_response_header", [key |-> key, value |-> value],
         add_response_header(resp.r, key, value))

SetBody(body, len, ok) ==
    Call("set_response_body", [body |-> body, len |-> len, ok |-> ok],
         set_response_body(resp.r, body, len, ok))

FreeResponse == Call("free_http_response", <<>>, free_http_response(resp.r))

NextResponse ==
    \/ \E h \in HeaderInputs : AddHeader(h.key, h.value)
    \/ \E b \in BodyInputs, ok \in BOOLEAN : SetBody(b.text, b.len, ok)
    \/ FreeResponse

\* the status lines the repository sets (routes.c: set_response, handle_route)
StatusInputs ==
    {[code |-> 200, message |-> "OK"],
     [code |-> 404, message |-> "Not Found"],
     [code |-> 500, message |-> "Internal Server Error"]}

SetStatus(code, message) ==
    Call("set_response_status", [code |-> code, message |-> message],
         set_response_status(resp.r, code, message))

\* the response-builder calls, set_response_status among them
NextAssemble ==
    \/ \E st \in StatusInputs : SetStatus(st.code, st.message)
    \/ \E h \in HeaderInputs : AddHeader(h.key, h.value)
    \/ \E b \in BodyInputs, ok \in BOOLEAN : SetBody(b.text, b.len, ok)
    \/ FreeResponse

\* char http_response_buffer[MAX_HEADERS_SIZE + 256]
ASSEMBLY_BUF == MAX_HEADERS_SIZE + 256

\* the characters "%d" and "%zu" print for n >= 0
RECURSIVE Digits(_)
Digits(n) == IF n < 10 THEN 1 ELSE 1 + Digits(n \div 10)

\* what "%s" prints for status_message: the text, and for a null pointer
\* (undefined) either "(null)" or the bytes at address 0 up to the first NUL,
\* none on this target
MessageTexts(message) == IF message = "NULL" THEN {"(null)", ""} ELSE {message}

\* offset after the four sprintf calls of tcp_server_recv: status line,
\* headers, Content-Length unless the headers hold one, blank line
AssembledLens(r) ==
    {Len("HTTP/1.1 ") + Digits(r.status_code) + Len(" ") + Len(m) + 2
         + TextLen(r.headers)
         + (IF \E i \in 1 .. Len(r.headers) : r.headers[i].key = "Content-Length"
            THEN 0
            ELSE Len("Content-Length: ") + Digits(r.body_len) + 2)
         + 2 : m \in MessageTexts(r.status_message)}

----------------------------------------------------------------------------
(* dnsserver.c *)

MAX_DNS_MSG_SIZE == 300
\* sizeof(dns_header_t)
DNS_HEADER_LEN == 12
MAX_LABEL_LEN == 63
MAX_QUESTION_LEN == 255

Rep(n, b) == [i \in 1 .. n |-> b]

\* the labels of a name on the wire: each a length byte and that many letters
RECURSIVE NameBytes(_)
NameBytes(labels) ==
    IF labels = <<>> THEN <<>>
    ELSE <<Head(labels)>> \o Rep(Head(labels), 97) \o NameBytes(Tail(labels))

QTypeA == <<0, 1, 0, 1>>
QTypeAAAA == <<0, 28, 0, 1>>
SecondQuestion == <<1, 98, 0, 0, 1, 0, 1>>

\* a query: header fields as bytes in network order, the label lengths of
\* the question name, whether its zero byte is there, the qtype/qclass
\* bytes, what follows them, the sender, and the byte value the rest of the
\* on-stack dns_msg holds; bytes is the datagram these make up
DnsQuery(id, flags, qd, labels, term, qtc, extra, src, stale) ==
    [id |-> id, flags |-> flags, qd |-> qd, labels |-> labels, term |-> term,
     qtc |-> qtc, extra |-> extra, short |-> FALSE, src |-> src, stale |-> stale,
     bytes |-> id \o flags \o qd \o <<0, 0, 0, 0, 0, 0>>
                  \o NameBytes(labels) \o (IF term THEN <<0>> ELSE <<>>)
                  \o qtc \o extra]

DnsClientA == [addr |-> <<192, 168, 4, 16>>, port |-> 40000]
DnsClientB == [addr |-> <<192, 168, 4, 17>>, port |-> 53]

DnsIds == {<<18, 52>>, <<255, 0>>}
\* RD only; nothing; QR; opcode 1; opcode 2 with RD; TC, Z and RCODE bits
DnsFlags == {<<1, 0>>, <<0, 0>>, <<129, 0>>, <<8, 0>>, <<17, 0>>, <<3, 35>>}
DnsCounts == {<<0, 0>>, <<0, 1>>, <<0, 2>>, <<1, 0>>}
\* www.example.com, a one-label name, the root, names of 255 and 256 bytes,
\* a 64-byte label after a good one
DnsNames ==
    {<<3, 7, 3>>, <<5>>, <<>>, <<63, 63, 63, 61>>, <<63, 63, 63, 62>>, <<3, 64>>}

DnsQueries ==
    \* every header, on a short name, a name of 255 bytes, one of 256 bytes
    \* and one with a 64-byte label
    {DnsQuery(<<18, 52>>, fl, qd, n, TRUE, QTypeA, <<>>, DnsClientA, 0) :
         fl \in DnsFlags, qd \in DnsCounts,
         n \in {<<5>>, <<63, 63, 63, 61>>, <<63, 63, 63, 62>>, <<3, 64>>}}
    \* every name, type, id and sender, on the headers of a standard query
    \cup {DnsQuery(id, fl, <<0, 1>>, n, TRUE, qt, <<>>, src, 0) :
              id \in DnsIds, fl \in {<<1, 0>>, <<3, 35>>}, n \in DnsNames,
              qt \in {QTypeA, QTypeAAAA}, src \in {DnsClientA, DnsClientB}}
    \* two questions
    \cup {DnsQuery(<<18, 52>>, <<1, 0>>, <<0, 2>>, n, TRUE, qt, SecondQuestion, DnsClientA, 0) :
              n \in {<<3, 7, 3>>, <<5>>}, qt \in {QTypeA, QTypeAAAA}}
    \* datagrams that end inside the question
    \cup {DnsQuery(<<18, 52>>, <<1, 0>>, <<0, 1>>, n, term, <<>>, <<>>, DnsClientA, st) :
              n \in {<<>>, <<3>>}, term \in BOOLEAN, st \in {0, 7}}
    \* a name that ends with the 300th byte, and a datagram longer than dns_msg
    \cup {DnsQuery(<<18, 52>>, <<1, 0>>, <<0, 1>>, n, TRUE, QTypeA, <<>>, DnsClientA, 0) :
              n \in {<<63, 63, 63, 63, 31>>, <<63, 63, 63, 63, 63>>}}
    \* an 11-byte datagram
    \cup {[DnsQuery(<<18, 52>>, fl, <<0, 1>>, <<>>, FALSE, <<>>, <<>>, DnsClientA, 0)
               EXCEPT !.short = TRUE] : fl \in {<<1, 0>>, <<129, 0>>}}

\* the bytes of the datagram
DnsBytes(q) ==
    IF q.short THEN SubSeq(q.bytes, 1, DNS_HEADER_LEN - 1) ELSE q.bytes

\* size_t msg_len = pbuf_copy_partial(p, dns_msg, sizeof(dns_msg), 0)
MsgLen(q) ==
    IF Len(DnsBytes(q)) < MAX_DNS_MSG_SIZE THEN Len(DnsBytes(q)) ELSE MAX_DNS_MSG_SIZE

\* dns_msg[i]: the copied bytes, then what the stack held
DnsByte(q, i) == IF i < MsgLen(q) THEN DnsBytes(q)[i + 1] ELSE q.stale

\* lwip_ntohs of the 16-bit field at offset i
Ntohs(q, i) == DnsByte(q, i) * 256 + DnsByte(q, i + 1)

\* the QR and opcode tests on the flags
IsStandardQueryMutNoQR(flags) == ((flags \div 2048) % 16) = 0
IsStandardQuery(flags) ==
    /\ ((flags \div 32768) % 2) = 0
    /\ ((flags \div 2048) % 16) = 0

\* the while loop over the question name from question_ptr on: the offset it
\* stops at, or -1 when it meets a label length above 63
RECURSIVE ScanQuestion(_, _)
ScanQuestion(q, ptr) ==
    IF ~(ptr < MsgLen(q)) THEN ptr
    ELSE IF DnsByte(q, ptr) = 0 THEN ptr + 1
    ELSE IF DnsByte(q, ptr) > MAX_LABEL_LEN THEN -1
    ELSE ScanQuestion(q, ptr + 1 + DnsByte(q, ptr))

\* question_ptr - question_ptr_start > 255
QuestionTooLongMutNever(ptr) == FALSE
QuestionTooLongMutOffByOne(ptr) == ptr - DNS_HEADER_LEN > MAX_QUESTION_LEN + 1
QuestionTooLong(ptr) == ptr - DNS_HEADER_LEN > MAX_QUESTION_LEN

\* the 16 bytes written at answer_ptr; ip is d->ip
DnsAnswerMutNoAddress(ip) == <<192, DNS_HEADER_LEN, 0, 1, 0, 1, 0, 0, 0, 60, 0, 4, 0, 0, 0, 0>>
DnsAnswer(ip) == <<192, DNS_HEADER_LEN, 0, 1, 0, 1, 0, 0, 0, 60, 0, 4>> \o ip

\* the header of the reply: the id left in place, flags QR | AA | RA, counts
DnsReplyHeaderMutKeepFlags(q) ==
    <<DnsByte(q, 0), DnsByte(q, 1), 128 + DnsByte(q, 2), 128,
      0, 1, 0, 1, 0, 0, 0, 0>>
DnsReplyHeader(q) ==
    <<DnsByte(q, 0), DnsByte(q, 1), 132, 128, 0, 1, 0, 1, 0, 0, 0, 0>>

\* the datagram dns_socket_sendto is given: dns_msg up to answer_ptr; ip is
\* d->ip at the time of the call
DnsReply(q, ptr, ip) ==
    [kind |-> "sent",
     bytes |-> DnsReplyHeader(q)
                   \o [i \in 1 .. (ptr + 4 - DNS_HEADER_LEN) |->
                          DnsByte(q, DNS_HEADER_LEN + i - 1)]
                   \o DnsAnswer(ip),
     dst |-> q.src.addr,
     port |-> q.src.port]

\* dns_server_process as a function of the datagram and of d->ip
DnsProcess(q, ip) ==
    IF MsgLen(q) < DNS_HEADER_LEN THEN NoReply
    ELSE IF ~IsStandardQuery(Ntohs(q, 2)) THEN NoReply
    ELSE IF Ntohs(q, 4) < 1 THEN NoReply
    ELSE LET ptr == ScanQuestion(q, DNS_HEADER_LEN)
         IN  IF ptr = -1 THEN NoReply
             ELSE IF QuestionTooLong(ptr) THEN NoReply
             ELSE DnsReply(q, ptr, ip)

\* dns_server_t dns_server of setup.c is a global: d->ip is 0.0.0.0 until
\* dns_server_init stores the address
UnsetIp == <<0, 0, 0, 0>>

\* dns_server_init has returned: the socket is bound and d->ip holds the
\* local address
InitDns == dns = [req |-> NoMsg, reply |-> NoReply, pc |-> "done", ip |-> ServerIp]

\* network_setup is about to call dns_server_init
InitDnsBoot == dns = [req |-> NoMsg, reply |-> NoReply, pc |-> "new", ip |-> UnsetIp]

\* dns_socket_new_dgram and dns_socket_bind: from here on the transport
\* delivers datagrams for port 53 to dns_server_process
dns_socket_bind ==
    /\ dns.pc = "new"
    /\ dns' = [dns EXCEPT !.pc = "bound"]
    /\ UNCHANGED <<dhcpVars, conn, resp, clk>>

\* ip_addr_copy(d->ip, *ip), the last statement of dns_server_init
dns_store_ip ==
    /\ dns.pc = "bound"
    /\ dns' = [dns EXCEPT !.pc = "done", !.ip = ServerIp]
    /\ UNCHANGED <<dhcpVars, conn, resp, clk>>

\* one datagram delivered to dns_server_process
dns_server_process(q) ==
    /\ dns.pc # "new"
    /\ dns' = [dns EXCEPT !.req = [kind |-> "dgram", q |-> q],
                          !.reply = DnsProcess(q, dns.ip)]
    /\ UNCHANGED <<dhcpVars, conn, resp, clk>>

\* the queries delivered while the responder starts
BootQueries == {q \in DnsQueries : Len(DnsBytes(q)) < 40}

\* network_setup calls dns_server_init outside cyw43_arch_lwip_begin/end, and
\* the transport runs in the background: a datagram can be handled between
\* any two statements of dns_server_init
NextDnsBoot ==
    \/ dns_socket_bind
    \/ dns_store_ip
    \/ \E q \in BootQueries : dns_server_process(q)

NextDns == \E q \in DnsQueries : dns_server_process(q)

Init == InitDhcp /\ InitConn /\ InitDns /\ InitResp /\ InitClk

SpecDhcp == Init /\ [][NextDhcp]_vars

SpecLease == Init /\ [][NextLease]_vars

SpecClock == Init /\ [][NextClock]_vars

SpecHttp == Init /\ [][NextHttp]_vars

\* the transport reports every acknowledgement it receives
SpecHttpFair ==
    Init /\ [][NextHttp]_vars
         /\ WF_vars(\E k \in 1 .. (Len(conn.sndq) - conn.acked) : tcp_sent_event(k))

SpecCopy == Init /\ [][NextCopy]_vars

SpecResponse == Init /\ [][NextResponse]_vars

SpecAssemble == Init /\ [][NextAssemble]_vars

SpecDns == Init /\ [][NextDns]_vars

\* network_setup has initialised the DHCP server and is about to call
\* dns_server_init
InitBoot == InitDhcp /\ InitConn /\ InitDnsBoot /\ InitResp /\ InitClk

SpecDnsBoot == InitBoot /\ [][NextDnsBoot]_vars

----------------------------------------------------------------------------
(* Vocabulary of the DHCP properties.  They read the last call from the     *)
(* state: old is the table before it, lease the table after it.             *)

Min(S) == CHOOSE x \in S : \A y \in S : x <= y

WasDiscover == req.kind = "dgram" /\ IsDiscover(req.d)

WasRequest == req.kind = "dgram" /\ IsRequest(req.d) /\ HasRequestedIp(req.d)

\* 16-bit wraparound-aware signed comparison: the compressed expiry e lies
\* before the tick t, compared on the upper 16 bits of t
Before16(e, t) == ((e - t[1] + W16) % W16) >= HALF16

Holders(L, m) == {s \in Slots : L[s].mac = m}

Candidates(L, t) == {s \in Slots : L[s].mac = ZeroMac \/ Before16(L[s].expiry, t)}

\* the REQUEST names an address of the local subnet that lies in the pool
InPool(d) == RequestedIp(d) \in PoolIps

RequestedSlot(d) == CHOOSE s \in Slots : RequestedIp(d) = SlotIp(s)

\* upper 16 bits of (t + 86,400,000) modulo 2^32
ExpiryAfterDay(t) ==
    (t[1] + LEASE_MS_HI + (IF t[2] + LEASE_MS_LO >= W16 THEN 1 ELSE 0)) % W16

----------------------------------------------------------------------------
(* C1 as stated: a DISCOVER leaves the hardware address and the expiry of   *)
(* every lease slot unchanged, expired slots included.                      *)
C1_DiscoverLeavesTableUnchanged == WasDiscover => lease = old

(* C1, amended: a DISCOVER leaves every slot's expiry unchanged and leaves  *)
(* the hardware address of every slot unchanged except that it may clear to *)
(* all-zero the address of a slot whose lease has expired at its tick.      *)
C1_DiscoverOnlyClearsExpired ==
    WasDiscover =>
        \A s \in Slots :
            /\ lease[s].expiry = old[s].expiry
            /\ \/ lease[s].mac = old[s].mac
               \/ lease[s].mac = ZeroMac /\ Before16(old[s].expiry, req.now)

C1_Witness ==
    /\ WasDiscover
    /\ \E s \in Slots : old[s].mac # ZeroMac /\ lease[s].mac = ZeroMac
    /\ \E s \in Slots : old[s].mac # ZeroMac /\ lease[s] = old[s]

----------------------------------------------------------------------------
(* C2 as stated: once a DISCOVER from M was answered with an OFFER for A    *)
(* and no other client's datagram changed the table, a REQUEST from M for A *)
(* is answered with an ACK for A and every later DISCOVER from M is offered *)
(* A again -- for every hardware address M.                                 *)
ExchangeStep(anyMac) ==
    (/\ track.kind = "offer"
     /\ req'.kind = "dgram"
     /\ req'.d.chaddr = track.mac
     /\ anyMac \/ track.mac # ZeroMac)
    => /\ (IsRequest(req'.d) /\ HasRequestedIp(req'.d)
              /\ RequestedIp(req'.d) = track.addr)
          => (IsAck(reply') /\ reply'.yiaddr = track.addr)
       /\ (IsDiscover(req'.d) /\ track.acked)
          => (IsOffer(reply') /\ reply'.yiaddr = track.addr)

C2_LeaseStableForAnyMac == [][ExchangeStep(TRUE)]_vars

(* C2, amended: the same, for every non-zero hardware address M.            *)
C2_LeaseStableForNonZeroMac == [][ExchangeStep(FALSE)]_vars

C2_Witness ==
    /\ track.kind = "offer" /\ track.acked /\ track.mac # ZeroMac
    /\ WasDiscover /\ req.d.chaddr = track.mac
    /\ IsOffer(reply) /\ reply.yiaddr = track.addr
    /\ \E s \in Slots : lease[s].mac = ZeroMac /\ SlotIp(s)[4] < track.addr[4]

----------------------------------------------------------------------------
(* C6: when every slot holds a non-zero hardware address with an unexpired  *)
(* lease and none equals the requester's, a DISCOVER sends no datagram and  *)
(* leaves the lease table unchanged.                                        *)
PoolExhaustedFor(m, t) ==
    \A s \in Slots :
        /\ old[s].mac # ZeroMac
        /\ old[s].mac # m
        /\ ~Before16(old[s].expiry, t)

C6_ExhaustedPoolIsSilent ==
    (WasDiscover /\ PoolExhaustedFor(req.d.chaddr, req.now))
        => (reply = NoReply /\ lease = old)

C6_Witness ==
    /\ WasDiscover /\ PoolExhaustedFor(req.d.chaddr, req.now)
    /\ req.d.chaddr # ZeroMac
    /\ reply = NoReply

----------------------------------------------------------------------------
(* C7: a DISCOVER that reaches a slot while it has chosen nothing yet       *)
(* reclaims it exactly when its compressed expiry lies before the tick      *)
(* under 16-bit wraparound-aware signed comparison, also where an unsigned  *)
(* comparison of expiry and tick gives the opposite answer.                 *)
\* the scan reaches slot s with no match and no candidate before or at it
ScanReachesUnchosen(s, m, t) ==
    /\ \A j \in 0 .. s : old[j].mac # m
    /\ \A j \in 0 .. (s - 1) : j \notin Candidates(old, t)

C7_ExpiryIsWrapAware ==
    WasDiscover =>
        \A s \in Slots :
            (ScanReachesUnchosen(s, req.d.chaddr, req.now) /\ old[s].mac # ZeroMac)
                => /\ (lease[s].mac = ZeroMac) = Before16(old[s].expiry, req.now)
                   /\ (Before16(old[s].expiry, req.now) /\ Holders(old, req.d.chaddr) = {})
                          => (IsOffer(reply) /\ reply.yiaddr = SlotIp(s))

\* a slot reclaimed although, unsigned, its expiry is after the tick; and, in
\* the same table, a slot kept although, unsigned, its expiry is before it
C7_Witness ==
    /\ WasDiscover
    /\ \E s \in Slots :
          /\ old[s].mac # ZeroMac /\ lease[s].mac = ZeroMac
          /\ Less32(req.now, ExpiryFull(old[s].expiry))

C7_WitnessKept ==
    /\ WasDiscover
    /\ \E s \in Slots :
          /\ ScanReachesUnchosen(s, req.d.chaddr, req.now)
          /\ old[s].mac # ZeroMac /\ lease[s].mac = old[s].mac
          /\ Less32(ExpiryFull(old[s].expiry), req.now)

----------------------------------------------------------------------------
(* C8: a DISCOVER from M offers a slot that holds M if one exists, wherever *)
(* it sits; otherwise the lowest-index slot that is free or expired.  A     *)
(* free or expired slot met earlier never wins over a slot holding M.       *)
C8_OfferedSlot ==
    WasDiscover =>
        LET m == req.d.chaddr
        IN  IF Holders(old, m) # {}
            THEN /\ IsOffer(reply)
                 /\ \E s \in Holders(old, m) : reply.yiaddr = SlotIp(s)
            ELSE IF Candidates(old, req.now) # {}
            THEN /\ IsOffer(reply)
                 /\ reply.yiaddr = SlotIp(Min(Candidates(old, req.now)))
            ELSE reply = NoReply

C8_Witness ==
    /\ WasDiscover /\ IsOffer(reply)
    /\ req.d.chaddr # ZeroMac
    /\ \E s \in Holders(old, req.d.chaddr) :
          /\ reply.yiaddr = SlotIp(s)
          /\ \E j \in Candidates(old, req.now) : j < s

----------------------------------------------------------------------------
(* C9: a REQUEST from M for an in-subnet, in-range address whose slot is    *)
(* free or already holds M ends with that slot holding M and expiry equal   *)
(* to the upper 16 bits of (now + 86,400,000 ms) modulo 2^32, changes no    *)
(* other slot, and sends an ACK whose your-address is base + slot index.    *)
C9_RequestCommits ==
    (WasRequest /\ InPool(req.d)
        /\ old[RequestedSlot(req.d)].mac \in {ZeroMac, req.d.chaddr})
    => LET yi == RequestedSlot(req.d)
       IN  /\ lease[yi] = [mac |-> req.d.chaddr, expiry |-> ExpiryAfterDay(req.now)]
           /\ \A s \in Slots \ {yi} : lease[s] = old[s]
           /\ IsAck(reply)
           /\ reply.yiaddr = <<ServerIp[1], ServerIp[2], ServerIp[3], DHCPS_BASE_IP + yi>>

\* a commit whose now + 24 h overflows 32 bits
C9_Witness ==
    /\ WasRequest /\ InPool(req.d) /\ IsAck(reply)
    /\ req.d.chaddr # ZeroMac
    /\ old[RequestedSlot(req.d)].mac = ZeroMac
    /\ req.now = TickWrap
    /\ lease[RequestedSlot(req.d)].expiry < req.now[1]

----------------------------------------------------------------------------
(* C10: a REQUEST from M for a slot that holds a different non-zero         *)
(* hardware address sends nothing and leaves the whole lease table          *)
(* unchanged, even when that other lease has already expired.               *)
C10_ContendedRequestDropped ==
    (WasRequest /\ InPool(req.d)
        /\ old[RequestedSlot(req.d)].mac \notin {ZeroMac, req.d.chaddr})
    => (reply = NoReply /\ lease = old)

C10_Witness ==
    /\ WasRequest /\ InPool(req.d)
    /\ old[RequestedSlot(req.d)].mac \notin {ZeroMac, req.d.chaddr}
    /\ Before16(old[RequestedSlot(req.d)].expiry, req.now)
    /\ reply = NoReply

----------------------------------------------------------------------------
(* What a datagram carries, read from its received bytes alone: the option  *)
(* walk over the datagram as if END followed its last received byte.        *)

Received(d) == [d EXCEPT !.tail = <<>>, !.stale = DHCP_OPT_END]

\* index of the option in the received bytes, -1 if the datagram has none
Carried(d, cmd) == opt_find(Received(d), cmd)

\* the message type the datagram carries, -1 if it carries none
CarriedType(d) ==
    LET o == Carried(d, DHCP_OPT_MSG_TYPE)
    IN  IF o # -1 /\ o + 2 < Len(d.opts) THEN d.opts[o + 3] ELSE -1

\* the datagram is a REQUEST that passes the length check
CarriesRequest(d) == TotLen(d) >= DHCP_MIN_SIZE /\ CarriedType(d) = DHCPREQUEST

\* the four address bytes of the REQUESTED_IP option the datagram carries
CarriesRequestedIp(d) ==
    LET o == Carried(d, DHCP_OPT_REQUESTED_IP)
    IN  o # -1 /\ o + 5 < Len(d.opts)

CarriedRequestedIp(d) ==
    LET o == Carried(d, DHCP_OPT_REQUESTED_IP)
    IN  <<d.opts[o + 3], d.opts[o + 4], d.opts[o + 5], d.opts[o + 6]>>

\* the REQUEST names no address, or one outside the subnet or the pool
RequestIsMalformed(d) ==
    \/ Carried(d, DHCP_OPT_REQUESTED_IP) = -1
    \/ /\ CarriesRequestedIp(d)
       /\ LET ip == CarriedRequestedIp(d)
          IN  \/ <<ip[1], ip[2], ip[3]>> # <<192, 168, 4>>
              \/ ((ip[4] - DHCPS_BASE_IP + 256) % 256) \notin 0 .. (DHCPS_MAX_IP - 1)

\* the received option bytes are closed by an END the option walk reaches
RECURSIVE WalkEnd(_, _)
WalkEnd(d, i) ==
    IF i >= Len(d.opts) \/ d.opts[i + 1] = DHCP_OPT_END THEN i
    ELSE IF i + 1 >= Len(d.opts) THEN Len(d.opts)
    ELSE WalkEnd(d, i + 2 + d.opts[i + 2])

Terminated(d) == WalkEnd(d, 0) < Len(d.opts)

----------------------------------------------------------------------------
(* C11: a REQUEST that has no REQUESTED_IP option, or whose requested       *)
(* address differs from the local address in one of its first three octets, *)
(* or whose last octet minus the base offset (as an 8-bit value) is outside  *)
(* [0, pool size), sends no reply and leaves the lease table unchanged.      *)
C11_MalformedRequestDropped ==
    (req.kind = "dgram" /\ CarriesRequest(req.d) /\ RequestIsMalformed(req.d))
        => (reply = NoReply /\ lease = old)

\* the same REQUESTs, when the option walk ends inside the received bytes
C11_TerminatedMalformedRequestDropped ==
    (req.kind = "dgram" /\ CarriesRequest(req.d) /\ RequestIsMalformed(req.d)
        /\ Terminated(req.d))
        => (reply = NoReply /\ lease = old)

\* a REQUEST without REQUESTED_IP that was acknowledged and took a lease
C11_StaleOptionAcked ==
    /\ req.kind = "dgram" /\ CarriesRequest(req.d)
    /\ Carried(req.d, DHCP_OPT_REQUESTED_IP) = -1
    /\ IsAck(reply) /\ lease # old

----------------------------------------------------------------------------
(* C12: a datagram shorter than 243 bytes, a message with no MSG_TYPE       *)
(* option, and a message whose type is neither DISCOVER nor REQUEST each     *)
(* produce no outbound datagram and leave the lease table unchanged.         *)
NotServed(d) ==
    \/ TotLen(d) < 243
    \/ Carried(d, DHCP_OPT_MSG_TYPE) = -1
    \/ CarriedType(d) \notin {-1, DHCPDISCOVER, DHCPREQUEST}

C12_UnservedIsSilent ==
    (req.kind = "dgram" /\ NotServed(req.d)) => (reply = NoReply /\ lease = old)

\* a datagram without MSG_TYPE that was answered with an OFFER
C12_StaleTypeOffered ==
    /\ req.kind = "dgram" /\ TotLen(req.d) >= 243
    /\ Carried(req.d, DHCP_OPT_MSG_TYPE) = -1
    /\ IsOffer(reply)

----------------------------------------------------------------------------
(* C13: every OFFER and every ACK carries, right after the magic cookie and *)
(* in this order, MSG_TYPE (OFFER or ACK), SERVER_ID = local address,       *)
(* SUBNET_MASK = netmask, ROUTER = local address, DNS = local address,      *)
(* IP_LEASE_TIME = 86400, END; it goes to the broadcast address on port 68; *)
(* and a DISCOVER or REQUEST that is accepted sends exactly one datagram.   *)
U32(b) == ((b[1] * 256 + b[2]) * 256 + b[3]) * 256 + b[4]

Accepted ==
    \/ WasDiscover /\ (Holders(old, req.d.chaddr) # {} \/ Candidates(old, req.now) # {})
    \/ WasRequest /\ InPool(req.d)
           /\ old[RequestedSlot(req.d)].mac \in {ZeroMac, req.d.chaddr}

C13_ReplyLayout ==
    /\ reply.kind = "sent" =>
          LET o == reply.options
          IN  /\ Len(o) = 34 /\ reply.len = 240 + 34
              /\ SubSeq(o, 1, 2) = <<53, 1>>
              /\ o[3] = (IF WasDiscover THEN 2 ELSE 5)
              /\ SubSeq(o, 4, 9) = <<54, 4, 192, 168, 4, 1>>
              /\ SubSeq(o, 10, 15) = <<1, 4, 255, 255, 255, 0>>
              /\ SubSeq(o, 16, 21) = <<3, 4, 192, 168, 4, 1>>
              /\ SubSeq(o, 22, 27) = <<6, 4, 192, 168, 4, 1>>
              /\ SubSeq(o, 28, 29) = <<51, 4>>
              /\ U32(SubSeq(o, 30, 33)) = 86400
              /\ o[34] = 255
              /\ reply.dst = <<255, 255, 255, 255>>
              /\ reply.port = 68
              /\ Accepted
    /\ Accepted => reply.kind = "sent"

\* an OFFER and, in the same table, the ACK that followed it
C13_Witness ==
    /\ WasRequest /\ IsAck(reply) /\ reply.port = 68
    /\ reply.yiaddr[4] = DHCPS_BASE_IP + 1
    /\ \E s \in Slots : lease[s].mac \notin {ZeroMac, req.d.chaddr}

----------------------------------------------------------------------------
(* Vocabulary of the DNS properties.  They read the query from the fields   *)
(* it was built from, not from the responder's parse of its bytes.          *)

DnsAsked == dns.req.kind = "dgram"

DnsAnswered == dns.reply.kind = "sent"

QR(q) == q.flags[1] >= 128

Opcode(q) == (q.flags[1] \div 8) % 16

QCount(q) == q.qd[1] * 256 + q.qd[2]


\* bytes the question name takes in the datagram
NameSpan(q) == SumSeq(q.labels) + Len(q.labels) + (IF q.term THEN 1 ELSE 0)

HasLongLabel(q) == \E i \in 1 .. Len(q.labels) : q.labels[i] > 63

----------------------------------------------------------------------------
----------------------------------------------------------------------------
(* C15: a DNS datagram gets no reply when it is shorter than the 12-byte    *)
(* header, or its QR bit is set, or its opcode bits are non-zero, or its    *)
(* question count is 0, or a label length above 63 is met while scanning    *)
(* the question name, or the scanned name spans more than 255 bytes.        *)
C15_MalformedQueryDropped ==
    LET q == dns.req.q
    IN  (DnsAsked /\ (\/ Len(DnsBytes(q)) < 12
                      \/ QR(q)
                      \/ Opcode(q) # 0
                      \/ QCount(q) = 0
                      \/ HasLongLabel(q)
                      \/ NameSpan(q) > 255))
            => ~DnsAnswered

\* an otherwise good query dropped for a name of 256 bytes
C15_Witness ==
    /\ DnsAsked /\ ~DnsAnswered
    /\ ~dns.req.q.short /\ ~QR(dns.req.q) /\ Opcode(dns.req.q) = 0
    /\ QCount(dns.req.q) = 1
    /\ ~HasLongLabel(dns.req.q)
    /\ NameSpan(dns.req.q) = 256

\* the longest name that is still answered
C15_WitnessBoundary ==
    /\ DnsAnswered
    /\ NameSpan(dns.req.q) = 255

----------------------------------------------------------------------------
(* C16 as stated: the DNS responder replies only to standard queries that   *)
(* carry exactly one question of type A; a query of another type, or with   *)
(* a question count above 1, gets no reply.                                 *)
C16_RepliesOnlyToSingleA ==
    DnsAnswered =>
        /\ ~QR(dns.req.q) /\ Opcode(dns.req.q) = 0
        /\ QCount(dns.req.q) = 1
        /\ dns.req.q.qtc = <<0, 1, 0, 1>>

(* C16, amended: the DNS responder replies only to standard queries that    *)
(* carry at least one question; it looks neither at the question type nor   *)
(* at the questions after the first, so a standard query of another type or *)
(* with a question count above 1 whose name passes the scan is answered.    *)
C16_RepliesToEveryStandardQuery ==
    LET q == dns.req.q
    IN  /\ DnsAnswered => (~QR(q) /\ Opcode(q) = 0 /\ QCount(q) >= 1)
        /\ (DnsAsked /\ ~q.short /\ ~QR(q) /\ Opcode(q) = 0 /\ QCount(q) >= 1
               /\ ~HasLongLabel(q) /\ NameSpan(q) <= 255)
           => DnsAnswered

\* an AAAA query with two questions that was answered
C16_Witness ==
    /\ DnsAnswered
    /\ dns.req.q.qtc = QTypeAAAA
    /\ QCount(dns.req.q) = 2
    /\ dns.req.q.extra = SecondQuestion

----------------------------------------------------------------------------
C17_WitnessOtherFlags ==
    /\ DnsAnswered
    /\ dns.req.q.flags = <<3, 35>>
    /\ dns.req.q.id = <<255, 0>>
    /\ dns.req.q.src = DnsClientB

----------------------------------------------------------------------------
(* Vocabulary of the HTTP properties *)

Responses == {i \in 1 .. Len(conn.sndq) : conn.sndq[i].part = "head"}

----------------------------------------------------------------------------
(* C3: whatever data is delivered on one HTTP connection, at most one       *)
(* response (one header block) is queued on it; data delivered after the    *)
(* first request was answered produces no second response.                  *)
C3_AtMostOneResponse == Cardinality(Responses) <= 1

----------------------------------------------------------------------------
(* C4: a transmit-complete notification closes the connection only when     *)
(* every write of the response, headers and body, has been acknowledged.    *)
C4_ClosedOnlyWhenAllAcked ==
    conn.closedBy = "sent" => conn.closedAt = Len(conn.sndq)

----------------------------------------------------------------------------
(* C5: the connection state allocated at accept is released exactly once:   *)
(* never twice, and never left allocated once the connection is closed.     *)
C5_StateReleasedOnce ==
    /\ conn.frees <= 1
    /\ conn.pcb = "closed" => conn.st = "freed"
    /\ conn.st = "freed" => conn.frees = 1
    /\ conn.st = "live" => conn.arg = "state"

\* a callback that ran close_connection again on the already closed connection
C5_Witness ==
    /\ conn.pcb = "closed" /\ conn.closedBy = "sent"
    /\ conn.ev.cb = "recv_closed"
    /\ conn.acked = Len(conn.sndq)
    /\ conn.frees = 1

----------------------------------------------------------------------------
(* Vocabulary of the routing properties *)

\* the last callback was a data delivery that queued a complete response:
\* conn.buf is its request, the last header block of sndq its header
Answered == conn.ev.cb = "recv" /\ conn.ev.ret = "ERR_OK"

LastHead == conn.sndq[CHOOSE i \in Responses : \A j \in Responses : j <= i]

\* the response ends with a body block
HasBody == Len(conn.sndq) > 0 /\ conn.sndq[Len(conn.sndq)].part = "body"

LastBody == conn.sndq[Len(conn.sndq)]

ContentLengths(h) ==
    {i \in 1 .. Len(h.headers) : h.headers[i].key = "Content-Length"}

StartsWith(text, prefix) ==
    Len(text) >= Len(prefix) /\ SubSeq(text, 1, Len(prefix)) = prefix

\* position of the first space at or after from, Len + 1 when there is none
SpaceFrom(text, from) ==
    LET S == {i \in from .. Len(text) : text[i] = " "}
    IN  IF S = {} THEN Len(text) + 1 ELSE Min(S)

\* the words of the request line
Method(text) == SubSeq(text, 1, SpaceFrom(text, 1) - 1)
Path(text) ==
    SubSeq(text, SpaceFrom(text, 1) + 1, SpaceFrom(text, SpaceFrom(text, 1) + 1) - 1)

IsGetOfPage(text) ==
    /\ Method(text) = <<"G", "E", "T">>
    /\ Path(text) \in {<<"/">>, <<"/", "i", "n", "d", "e", "x">>}

----------------------------------------------------------------------------
(* C18: a request that starts with the request line GET / HTTP/1.1 is       *)
(* answered with status code 200, a non-empty body and a Content-Length     *)
(* header whose value is the body's byte length.  (Stated for the answers   *)
(* that got a body, so that a failed allocation is not what refutes it.)    *)
C18_RootIs200 ==
    (Answered /\ HasBody
        /\ StartsWith(conn.buf, <<"G", "E", "T", " ", "/", " ", "H", "T", "T", "P",
                                  "/", "1", ".", "1">>))
    => /\ LastHead.status_code = 200
       /\ LastBody.len > 0
       /\ \E i \in ContentLengths(LastHead) : LastHead.headers[i].value = LastBody.len

\* the answer the page request gets: a body and its length, status code 0
C18_StatusNeverSet ==
    /\ Answered /\ HasBody /\ conn.buf = ReqRootLine
    /\ LastHead.status_code = 0 /\ LastHead.status_message = "NULL"
    /\ LastBody.body = "html"

----------------------------------------------------------------------------
(* C19: every request whose method and path are not exactly GET on / or     *)
(* GET on /index (GET /indexfoo, GET /other, POST /) is answered with       *)
(* status 404 and the plain-text not-found body.  (Stated for the answers   *)
(* that got a body.)                                                        *)
C19_OtherIs404 ==
    (Answered /\ HasBody /\ ~IsGetOfPage(conn.buf))
    => /\ LastHead.status_code = 404
       /\ LastBody.body = "not_found"

\* the same for the requests that do not begin with the text GET /index
C19_NonPrefixIs404 ==
    (Answered /\ HasBody /\ ~IsGetOfPage(conn.buf)
        /\ ~StartsWith(conn.buf, LitGetIndex))
    => /\ LastHead.status_code = 404
       /\ LastBody.body = "not_found"

\* GET /indexfoo answered with the page
C19_PrefixServed ==
    /\ Answered /\ HasBody /\ conn.buf = ReqIndexFoo
    /\ LastBody.body = "html"

----------------------------------------------------------------------------
(* C20 as stated: every response header block contains exactly one          *)
(* Content-Length line and its value equals the number of body bytes        *)
(* queued after the header block.                                           *)
BodyBytesAfter(i) ==
    IF i < Len(conn.sndq) /\ conn.sndq[i + 1].part = "body"
    THEN conn.sndq[i + 1].len ELSE 0

C20_LengthMatchesQueuedBody ==
    \A i \in Responses :
        /\ Cardinality(ContentLengths(conn.sndq[i])) = 1
        /\ \A k \in ContentLengths(conn.sndq[i]) :
               conn.sndq[i].headers[k].value = BodyBytesAfter(i)

(* C20, amended: every response header block contains exactly one           *)
(* Content-Length line, added by the HTTP engine when the route resolver    *)
(* declared none; its value equals the number of body bytes queued after    *)
(* the header block, unless the transport refused the body write: then the  *)
(* header block is the last write queued and the receive callback has       *)
(* closed the connection.                                                   *)
C20_LengthMatchesUnlessRefused ==
    \A i \in Responses :
        /\ Cardinality(ContentLengths(conn.sndq[i])) = 1
        /\ \A k \in ContentLengths(conn.sndq[i]) :
               \/ conn.sndq[i].headers[k].value = BodyBytesAfter(i)
               \/ /\ i = Len(conn.sndq)
                  /\ conn.pcb = "closed" /\ conn.closedBy = "recv"

\* two responses queued, each header with the length of the body behind it
C20_Witness ==
    /\ Cardinality(Responses) = 2
    /\ Len(conn.sndq) = 4
    /\ conn.sndq[2].len = HTML_LEN /\ conn.sndq[4].len = NOT_FOUND_LEN
    /\ conn.sndq[1].headers[1].value = HTML_LEN

\* a header block queued alone after the body write was refused
C20_WitnessRefused ==
    /\ conn.ev.cb = "recv" /\ conn.ev.ret = "ERR_MEM"
    /\ Len(conn.sndq) > 0
    /\ conn.sndq[Len(conn.sndq)].part = "head"
    /\ \E k \in ContentLengths(conn.sndq[Len(conn.sndq)]) :
           conn.sndq[Len(conn.sndq)].headers[k].value > 0

----------------------------------------------------------------------------
(* Vocabulary of the receive-buffer property *)

\* the first 511 bytes of a request
First511(text) == SubSeq(text, 1, Min({Len(text), HEADERS_BUF - 1}))

\* status and body of the last response queued
LastAnswer ==
    [status |-> LastHead.status_code,
     body |-> IF HasBody THEN LastBody.body ELSE "none"]

\* this step is a data delivery
DataDelivery == conn'.ndeliv = conn.ndeliv + 1

(* C21: for a delivered request of any length, at most 511 bytes are copied *)
(* into the 512-byte receive buffer, they are the first bytes of the         *)
(* request, and the NUL is written inside the buffer right after them; two   *)
(* requests that agree on their first 511 bytes, served with the same        *)
(* allocation outcome, get the same status and body.                         *)
C21_TruncatedCopy ==
    [][DataDelivery =>
          /\ Len(conn'.buf) <= HEADERS_BUF - 1
          /\ conn'.buf = First511(conn'.rx)
          /\ conn'.nul = Len(conn'.buf)
          /\ conn'.nul >= 0 /\ conn'.nul < HEADERS_BUF
          /\ (Answered /\ Answered' /\ conn'.oom = conn.oom
                  /\ First511(conn'.rx) = First511(conn.rx))
             => LastAnswer' = LastAnswer]_vars

\* a 600-byte request answered after another one with the same first 511 bytes
C21_Witness ==
    /\ Answered /\ Cardinality(Responses) = 2
    /\ conn.rx = Long600B
    /\ Len(conn.buf) = HEADERS_BUF - 1 /\ conn.nul = HEADERS_BUF - 1
    /\ Len(conn.sndq) = 4 /\ conn.sndq[1] = conn.sndq[3]
    /\ LastAnswer.status = 404

----------------------------------------------------------------------------
(* C22: when the transport rejects the header write or the body write, the  *)
(* handler releases the response body, closes the connection, releases the  *)
(* connection state and clears the callback argument, and returns the error *)
(* to the transport; nothing is queued by the handler after the rejected    *)
(* write, and nothing is queued on that connection afterwards (no retry).   *)
C22_RejectedWriteAborts ==
    [][/\ (DataDelivery /\ conn'.wr # "none")
          => /\ conn'.mem.live = 0 /\ conn'.mem.frees = conn'.mem.allocs
             /\ conn'.pcb = "closed" /\ conn'.closedBy = "recv"
             /\ conn'.st = "freed" /\ conn'.frees = 1 /\ conn'.arg = "null"
             /\ conn'.ev = [cb |-> "recv", ret |-> "ERR_MEM"]
             /\ conn'.wr = "head" => conn'.sndq = conn.sndq
             /\ conn'.wr = "body"
                => /\ Len(conn'.sndq) = Len(conn.sndq) + 1
                   /\ SubSeq(conn'.sndq, 1, Len(conn.sndq)) = conn.sndq
                   /\ conn'.sndq[Len(conn'.sndq)].part = "head"
       /\ conn.wr # "none" => conn'.sndq = conn.sndq]_vars

\* the body write was rejected: the header stays queued alone, the body block
\* was freed, and a later event found the connection closed
C22_Witness ==
    /\ conn.wr = "body"
    /\ conn.mem = [allocs |-> 1, frees |-> 1, live |-> 0, dfree |-> 0]
    /\ conn.pcb = "closed" /\ conn.st = "freed"
    /\ Len(conn.sndq) = 1
    /\ conn.ev.cb = "sent"

\* the header write was rejected: nothing was queued
C22_WitnessHead ==
    /\ conn.wr = "head" /\ conn.sndq = <<>>
    /\ conn.ev = [cb |-> "recv", ret |-> "ERR_MEM"]
    /\ conn.mem.allocs = 1 /\ conn.mem.live = 0

----------------------------------------------------------------------------
(* C23: on every path through the data-delivery handler (headers and body   *)
(* queued, header write failed, body write failed) the body block owned by  *)
(* the Response is freed exactly once before the handler returns: no block  *)
(* is freed twice and none is still allocated at the return.                *)
C23_BodyReleasedOnce ==
    conn.ndeliv > 0
    => /\ conn.mem.live = 0
       /\ conn.mem.dfree = 0
       /\ conn.mem.frees = conn.mem.allocs
       /\ conn.mem.allocs = IF conn.oom THEN 0 ELSE 1

\* headers and body queued, and the one body block allocated and freed
C23_Witness ==
    /\ Answered /\ HasBody /\ conn.wr = "none"
    /\ conn.mem = [allocs |-> 1, frees |-> 1, live |-> 0, dfree |-> 0]
    /\ LastBody.len = HTML_LEN

----------------------------------------------------------------------------
(* C24: when allocating the response body fails while a request is served,  *)
(* the client still gets a response with a 500-class status code, not a     *)
(* response with another status and not a dropped connection.  (Stated for  *)
(* the deliveries whose writes the transport accepted, so that a rejected   *)
(* write is not what refutes it.)                                           *)
C24_AllocationFailureIs500 ==
    (conn.ev.cb = "recv" /\ conn.oom /\ conn.wr = "none")
    => /\ Answered
       /\ LastHead.status_code \in 500 .. 599

\* the page request served while malloc fails: status 0 and no body
C24_PageWithoutBody ==
    /\ Answered /\ conn.oom /\ conn.buf = ReqRootLine
    /\ Len(conn.sndq) = 1
    /\ LastHead.status_code = 0
    /\ \E i \in ContentLengths(LastHead) : LastHead.headers[i].value = 0

\* another request served while malloc fails: status 404 and no body
C24_NotFoundWithoutBody ==
    /\ Answered /\ conn.oom /\ conn.buf = ReqOther
    /\ Len(conn.sndq) = 1
    /\ LastHead.status_code = 404

----------------------------------------------------------------------------
(* Vocabulary of the response-builder properties *)

\* this step is a call of the named function
Called(op) == resp'.calls = resp.calls + 1 /\ resp'.op = op

\* bytes of the line "key: value\r\n"
LineLen(a) == Len(a.key) + 2 + Len(a.value) + 2

\* the value fits the 256-byte formatting buffer and is not empty
Formatted(a) == Len(a.value) > 0 /\ Len(a.value) < VALUE_BUF

(* C25: the used header length stays at most 1023, equals the length of the *)
(* NUL-terminated header text, and the text stays inside the 1024-byte      *)
(* header area; an append that fits adds its whole line, an append that     *)
(* does not fit is cut at the capacity boundary, and every append made once *)
(* the area is full leaves the header text unchanged.                       *)
C25_HeaderAreaBounded ==
    [][/\ resp'.r.headers_len <= MAX_HEADERS_SIZE - 1
       /\ resp'.r.headers_len = TextLen(resp'.r.headers)
       /\ Called("add_response_header")
          => LET a == resp'.arg
                 room == MAX_HEADERS_SIZE - 1 - resp.r.headers_len
             IN  /\ (Formatted(a) /\ LineLen(a) <= room)
                    => /\ resp'.r.headers =
                             Append(resp.r.headers,
                                    [key |-> a.key, value |-> a.value,
                                     kept |-> LineLen(a)])
                       /\ resp'.r.headers_len = resp.r.headers_len + LineLen(a)
                 /\ (Formatted(a) /\ LineLen(a) > room)
                    => /\ resp'.r.headers_len = MAX_HEADERS_SIZE - 1
                       /\ CutText(resp'.r.headers, resp.r.headers_len)
                              = resp.r.headers
                       /\ room > 0
                          => resp'.r.headers[Len(resp'.r.headers)] =
                                [key |-> a.key, value |-> a.value, kept |-> room]
                 /\ room = 0 => resp'.r.headers = resp.r.headers
                 /\ resp'.r.body = resp.r.body /\ resp'.r.heap = resp.r.heap]_vars

\* a short header appended after the fourth long line was cut at byte
\* 1023: the text still ends with the cut line
C25_Witness ==
    /\ resp.op = "add_response_header" /\ resp.arg.key = "Content-Type"
    /\ resp.calls = 5
    /\ resp.r.headers_len = MAX_HEADERS_SIZE - 1
    /\ Len(resp.r.headers) = 4
    /\ \A i \in 1 .. 4 : resp.r.headers[i].key = "X-Long"
    /\ resp.r.headers[4].kept = 228

----------------------------------------------------------------------------
(* C26: while looking for an option, the DHCP handler reads only bytes that *)
(* lie inside the received datagram's option area (bounded by the received  *)
(* length and by the options field), and the fields it reads from a found   *)
(* option (the MSG_TYPE value, the REQUESTED_IP bytes) lie inside it too.   *)
C26_ReadsInsideReceivedOptions ==
    (req.kind = "dgram" /\ TotLen(req.d) >= DHCP_MIN_SIZE)
    => LastOptionRead(req.d) < Min({Len(req.d.opts), OPT_SCAN_LIMIT})

\* the same, for the datagrams whose option walk meets an END in the
\* received bytes and which carry the fields of the options they name
C26_TerminatedReadsInside ==
    (req.kind = "dgram" /\ TotLen(req.d) >= DHCP_MIN_SIZE /\ Terminated(req.d)
        /\ (Carried(req.d, DHCP_OPT_REQUESTED_IP) # -1 => CarriesRequestedIp(req.d)))
    => LastOptionRead(req.d) < Min({Len(req.d.opts), OPT_SCAN_LIMIT})

\* a REQUEST of 243 bytes without END: the walk for REQUESTED_IP went on
\* into the bytes the stack held and the address was read from them
C26_ReadPastReceived ==
    /\ req.kind = "dgram" /\ Len(req.d.opts) = 3
    /\ req.d.opts = <<DHCP_OPT_MSG_TYPE, 1, DHCPREQUEST>>
    /\ LastOptionRead(req.d) = 8
    /\ IsAck(reply)

----------------------------------------------------------------------------
(* C27 as stated: a DISCOVER never commits a lease: after a DISCOVER from a *)
(* hardware address M that was in no slot, M is still in no slot and no     *)
(* slot's expiry has changed; only a REQUEST writes a requester's hardware  *)
(* address or an expiry into the table -- for every hardware address M.     *)
DiscoverCommitsNothing(anyMac) ==
    (req.kind = "dgram" /\ (anyMac \/ req.d.chaddr # ZeroMac))
    => /\ (WasDiscover /\ Holders(old, req.d.chaddr) = {})
          => /\ Holders(lease, req.d.chaddr) = {}
             /\ \A s \in Slots : lease[s].expiry = old[s].expiry
       /\ \A s \in Slots :
              (\/ lease[s].expiry # old[s].expiry
               \/ lease[s].mac # old[s].mac /\ lease[s].mac = req.d.chaddr)
              => (WasRequest /\ IsAck(reply))

C27_DiscoverNeverCommits == DiscoverCommitsNothing(TRUE)

(* C27, amended: the same, for every non-zero hardware address M.           *)
C27_NonZeroDiscoverNeverCommits == DiscoverCommitsNothing(FALSE)

\* a DISCOVER from a new client that was offered a slot it had to reclaim:
\* the expired holder is cleared, the client is not written
C27_Witness ==
    /\ WasDiscover /\ IsOffer(reply)
    /\ req.d.chaddr # ZeroMac
    /\ Holders(old, req.d.chaddr) = {}
    /\ lease # old
    /\ \A s \in Slots : old[s].mac # ZeroMac

\* a DISCOVER from the all-zero address that reclaimed an expired slot: the
\* cleared slot now holds the requester's address
C27_ZeroMacHeld ==
    /\ WasDiscover /\ req.d.chaddr = ZeroMac
    /\ Holders(old, ZeroMac) = {}
    /\ Holders(lease, ZeroMac) # {}

----------------------------------------------------------------------------
(* C28: when the transport reports the acknowledgements it receives, every  *)
(* accepted connection on which a request was delivered and whose writes    *)
(* succeeded (its response is then queued) is eventually closed with its    *)
(* connection state released.                                               *)
C28_AnsweredEventuallyClosed ==
    (Answered /\ Responses # {})
        ~> (conn.pcb = "closed" /\ conn.st = "freed" /\ conn.arg = "null"
                /\ Responses # {})

\* the response was queued whole, acknowledged, and the transmit-complete
\* callback closed the connection
C28_Witness ==
    /\ conn.ev = [cb |-> "sent", ret |-> "ERR_OK"]
    /\ conn.closedBy = "sent" /\ conn.pcb = "closed" /\ conn.st = "freed"
    /\ conn.wr = "none" /\ conn.ndeliv = 1
    /\ Len(conn.sndq) = 2 /\ conn.acked = 2

----------------------------------------------------------------------------
(* C29: if the client closes the stream before delivering any data, the     *)
(* connection is closed and its state released without any response being   *)
(* queued; and a data delivery reported with a transport error status       *)
(* releases the packet buffer without queuing a response and without        *)
(* releasing the connection state.                                          *)
C29_CloseAndErrorDeliveries ==
    [][/\ (conn'.rxfin /\ ~conn.rxfin /\ conn.pcb = "open" /\ conn.ndeliv = 0)
          => /\ conn'.pcb = "closed" /\ conn'.closedBy = "recv_closed"
             /\ conn'.st = "freed" /\ conn'.frees = 1 /\ conn'.arg = "null"
             /\ conn'.sndq = <<>>
             /\ conn'.ev = [cb |-> "recv_closed", ret |-> "ERR_OK"]
       /\ conn'.ev.cb = "recv_err"
          => /\ conn'.pbuf = "freed"
             /\ conn'.sndq = conn.sndq
             /\ conn'.st = "live" /\ conn'.frees = 0 /\ conn'.arg = "state"
             /\ conn'.pcb = "open"
             /\ conn'.ev.ret # "ERR_OK"]_vars

\* the stream closed by the client right after the accept
C29_Witness ==
    /\ conn.ev.cb = "recv_closed" /\ conn.ndeliv = 0
    /\ conn.pcb = "closed" /\ conn.closedBy = "recv_closed"
    /\ conn.st = "freed" /\ conn.sndq = <<>>

\* an error delivery on a connection that has a response queued
C29_WitnessError ==
    /\ conn.ev.cb = "recv_err" /\ conn.pbuf = "freed"
    /\ conn.st = "live" /\ conn.pcb = "open"
    /\ Len(conn.sndq) = 2

----------------------------------------------------------------------------
(* C30: set_response_body releases the previously owned body before         *)
(* installing the new copy, so after any sequence of calls the Response     *)
(* owns at most one body (the only live block, never freed twice) and       *)
(* body_len is that body's length, 0 when it owns none; and                 *)
(* free_http_response is idempotent: a second call releases nothing and     *)
(* leaves the Response in the same reset state.                             *)
LiveBodies(r) == Blocks(r, "body", {"live"})

C30_SingleOwnedBody ==
    [][/\ LiveBodies(resp'.r) = IF resp'.r.body = NULL THEN {} ELSE {resp'.r.body}
       /\ resp'.r.body_len =
              IF resp'.r.body = NULL THEN 0 ELSE resp'.r.heap[resp'.r.body].len
       /\ resp'.r.dfree = 0
       /\ Called("set_response_body")
          => /\ resp.r.body # NULL
                => /\ resp'.r.heap[resp.r.body].st = "freed"
                   /\ resp'.r.frees = resp.r.frees + 1
             /\ resp.r.body = NULL => resp'.r.frees = resp.r.frees
             /\ (resp'.arg.body # "NULL" /\ resp'.arg.ok)
                => /\ resp'.r.body = Len(resp.r.heap) + 1
                   /\ resp'.r.heap[resp'.r.body] =
                         [text |-> resp'.arg.body, len |-> resp'.arg.len,
                          st |-> "live", owner |-> "body"]
             /\ (resp'.arg.body = "NULL" \/ ~resp'.arg.ok)
                => /\ resp'.r.body = NULL
                   /\ Len(resp'.r.heap) = Len(resp.r.heap)
       /\ Called("free_http_response")
          => /\ resp'.r.body = NULL /\ resp'.r.body_len = 0
             /\ resp'.r.status_code = 0 /\ resp'.r.headers_len = 0
             /\ resp'.r.headers = <<>>
             /\ resp.op = "free_http_response" => resp'.r = resp.r]_vars

\* a body replaced by another one, then the Response freed twice: two
\* blocks allocated, two free() calls, none on a freed block
C30_Witness ==
    /\ resp.op = "free_http_response" /\ resp.prev = "free_http_response"
    /\ Len(resp.r.heap) = 2
    /\ resp.r.heap[1].text = "html" /\ resp.r.heap[2].text = "not_found"
    /\ \A i \in 1 .. 2 : resp.r.heap[i].st = "freed"
    /\ resp.r.frees = 2 /\ resp.r.dfree = 0
    /\ resp.r.body = NULL

----------------------------------------------------------------------------
(* C32: after any sequence of DISCOVER and REQUEST messages, each non-zero  *)
(* hardware address is stored in at most one lease slot.                    *)
C32_OneSlotPerAddress ==
    \A m \in MACs \ {ZeroMac} : Cardinality(Holders(lease, m)) <= 1

\* a client that holds the first address was acknowledged the second one
\* too: its hardware address is in both slots
C32_SecondSlotTaken ==
    /\ WasRequest /\ IsAck(reply)
    /\ req.d.chaddr = MacA
    /\ old[0].mac = MacA /\ old[1].mac = ZeroMac
    /\ lease[0].mac = MacA /\ lease[1].mac = MacA

\* the lease ACKed for slot s when the last datagram arrived was younger than
\* 86,400,000 ms at the time of that datagram
LiveWhenArrived(s) ==
    /\ clk.before[s].held
    /\ Less32(SinceReal(clk.now, clk.before[s].at), DEFAULT_LEASE_TIME_MS)

(* C31, as stated: no address is ACKed to a hardware address while a        *)
(* different hardware address, the all-zero one included, holds an ACKed    *)
(* lease on it that is less than 86,400,000 ms old.                         *)
C31_NoAckOverAnyLiveLease ==
    \A s \in Slots :
        (WasRequest /\ IsAck(reply) /\ reply.yiaddr = SlotIp(s) /\ LiveWhenArrived(s))
            => clk.before[s].mac = req.d.chaddr

(* C31, amended: no address is ACKed to a hardware address while a          *)
(* different hardware address that is not all-zero holds an ACKed lease on  *)
(* it that is less than 86,400,000 ms old.                                  *)
C31_NoAckOverLiveLease ==
    \A s \in Slots :
        (WasRequest /\ IsAck(reply) /\ reply.yiaddr = SlotIp(s) /\ LiveWhenArrived(s)
            /\ clk.before[s].mac # ZeroMac)
            => clk.before[s].mac = req.d.chaddr

\* an address is ACKed to a second client once the first client's lease is
\* older than a day and a DISCOVER has cleared it, and a first client keeps
\* its live lease against a REQUEST of another client
C31_TakenOverAfterExpiry ==
    /\ WasRequest /\ IsAck(reply) /\ reply.yiaddr = SlotIp(0)
    /\ req.d.chaddr = MacB
    /\ clk.before[0].held /\ clk.before[0].mac = MacA
    /\ ~LiveWhenArrived(0)
    /\ clk.ack[0].mac = MacB

(* C37: a DISCOVER that arrives less than 86,400,000 ms after the REQUEST   *)
(* that committed a lease does not treat that lease as expired: the expiry  *)
(* test fails for it, its hardware address stays in the slot, and the slot  *)
(* is offered to nobody else.  The tick counter may wrap in between.        *)
C37_LeaseLastsADay ==
    \A s \in Slots :
        (WasDiscover /\ LiveWhenArrived(s))
            => /\ ~LeaseExpired(old[s].expiry, req.now)
               /\ lease[s].mac = old[s].mac
               /\ (old[s].mac # ZeroMac /\ old[s].mac # req.d.chaddr)
                      => ~(IsOffer(reply) /\ reply.yiaddr = SlotIp(s))

\* a DISCOVER one millisecond before the end of a lease whose expiry lies
\* beyond the wrap of the tick counter
C37_DiscoverBeforeWrappedExpiry ==
    /\ WasDiscover /\ req.d.chaddr = MacB
    /\ clk.before[0].held /\ clk.before[0].mac = MacA
    /\ SinceReal(clk.now, clk.before[0].at) = StepAlmostLease
    /\ clk.before[0].at[1] < W16 /\ clk.now[1] >= W16
    /\ lease[0].mac = MacA

(* C33: once the connection state has been released, every callback the     *)
(* transport still runs on the connection is one that does not dereference  *)
(* its state argument: the data-delivery handler and tcp_server_sent, which *)
(* read and write *arg unconditionally, run only while arg is the live      *)
(* state.                                                                   *)
C33_NoCallbackOnReleasedState ==
    [][/\ conn'.ndeliv > conn.ndeliv => (conn.arg = "state" /\ conn.st = "live")
       /\ (conn'.acked > conn.acked /\ conn.sentcb = "tcp_server_sent")
              => (conn.arg = "state" /\ conn.st = "live")]_vars

\* the header was queued, the body write was refused, the connection closed
\* and its state freed; the header's acknowledgement then ran tcp_server_sent
C33_SentAfterRelease ==
    /\ conn.ev.cb = "sent" /\ conn.ev.ret = "FAULT"
    /\ conn.sentcb = "tcp_server_sent"
    /\ conn.st = "freed" /\ conn.arg = "null"
    /\ conn.closedBy = "recv" /\ conn.acked = 1

\* heap blocks allocated and not freed: the connection state, the blocks of
\* finished data deliveries that nobody freed, and the last response's body
LiveAllocations ==
    (IF conn.st = "live" THEN 1 ELSE 0) + conn.leaked + conn.mem.live

UnreleasedStates == IF conn.st = "live" THEN 1 ELSE 0

(* C36: between callbacks, whatever requests were served, the number of     *)
(* live heap allocations equals the number of connection states not yet     *)
(* released: nothing allocated while building a response outlives the data  *)
(* delivery that built it.                                                  *)
C36_NothingOutlivesDelivery == LiveAllocations = UnreleasedStates

\* a page request was served and the block of get_html_content is still
\* allocated after the handler returned
C36_PageBlockLeaked ==
    /\ conn.ev = [cb |-> "recv", ret |-> "ERR_OK"]
    /\ IsPageRoute(conn.buf)
    /\ conn.leaked = 1 /\ conn.mem.live = 0

\* the offset in dns_msg at which the answer record of the last reply starts
AnswerOffset == Len(dns.reply.bytes) - Len(DnsAnswer(ServerIp))

(* C34: a DNS reply is sent only for a query whose question lies inside the *)
(* received datagram: the bytes echoed before the answer record were all    *)
(* received, and they end with the zero byte of the name and the four       *)
(* qtype/qclass bytes.                                                      *)
C34_ReplyOnlyFromReceivedBytes ==
    dns.reply.kind = "sent" =>
        /\ AnswerOffset <= MsgLen(dns.req.q)
        /\ AnswerOffset - 4 > DNS_HEADER_LEN
        /\ DnsByte(dns.req.q, AnswerOffset - 5) = 0

\* a 13-byte query, header and the root name, answered with four bytes of
\* the handler's stack in the place of qtype and qclass
C34_StackBytesEchoed ==
    /\ dns.reply.kind = "sent"
    /\ MsgLen(dns.req.q) = DNS_HEADER_LEN + 1
    /\ dns.req.q.stale = 7
    /\ SubSeq(dns.reply.bytes, 14, 17) = <<7, 7, 7, 7>>

(* C38: whatever the datagram, the 16-byte answer record of a reply starts  *)
(* at an offset of at most 284 in dns_msg, so it ends inside the 300 bytes. *)
C38_AnswerInsideBuffer ==
    dns.reply.kind = "sent" =>
        /\ AnswerOffset <= MAX_DNS_MSG_SIZE - Len(DnsAnswer(ServerIp))
        /\ Len(dns.reply.bytes) <= MAX_DNS_MSG_SIZE

\* the longest question that is answered: a name of 255 bytes, the answer
\* record at offset 271
C38_LongestAnswered ==
    /\ dns.reply.kind = "sent"
    /\ dns.req.q.labels = <<63, 63, 63, 61>>
    /\ AnswerOffset = DNS_HEADER_LEN + MAX_QUESTION_LEN + 4

\* a datagram that fills dns_msg gets no reply
C38_FullBufferDropped ==
    /\ dns.req.kind = "dgram"
    /\ MsgLen(dns.req.q) = MAX_DNS_MSG_SIZE
    /\ dns.reply.kind = "none"

(* C35: a query handled once the socket of the DNS responder is bound,      *)
(* dns_server_init still running or not, is never answered with an address  *)
(* other than the configured local address.                                 *)
C35_BoundSocketAnswersLocalAddress ==
    (dns.pc # "new" /\ dns.reply.kind = "sent") =>
        SubSeq(dns.reply.bytes, AnswerOffset + 13, AnswerOffset + 16) = ServerIp

\* a query handled between dns_socket_bind and ip_addr_copy, answered 0.0.0.0
C35_AnsweredBeforeAddressStored ==
    /\ dns.pc = "bound" /\ dns.reply.kind = "sent"
    /\ dns.req.q.labels = <<3, 7, 3>>
    /\ SubSeq(dns.reply.bytes, AnswerOffset + 13, AnswerOffset + 16) = UnsetIp

(* C39: for every response the builder calls produce, the header area       *)
(* filled to 1023 characters included, the status line, the header text,    *)
(* the Content-Length line, the blank line and the NUL that sprintf puts    *)
(* behind them fit in the 1280 bytes of http_response_buffer.               *)
C39_AssemblyFits ==
    \A n \in AssembledLens(resp.r) : n + 1 <= ASSEMBLY_BUF

\* the longest status line on a header area filled to its last character
C39_FullHeaderArea ==
    /\ resp.r.status_code = 500
    /\ resp.r.status_message = "Internal Server Error"
    /\ TextLen(resp.r.headers) = MAX_HEADERS_SIZE - 1
    /\ \E n \in AssembledLens(resp.r) : n >= MAX_HEADERS_SIZE + 50


====
